---- MODULE Spec2Model ----
(***************************************************************************)
(* Model of the budget-constrained refinement engine of prompt-improver:   *)
(*   - the self-refine convergence loop   (src/src/self-refine.ts)         *)
(*   - the progressive enhancement pipeline (src/unnamed/part_001)         *)
(* One behaviour of Spec is one run of one of the two components; which    *)
(* one runs is fixed in Init (variable run).  ProcessSpec lets a process   *)
(* invoke the component again; GatewaySpec follows the gateway functions   *)
(* callClaude and callClaudeForLayer under a clock; CritiqueSpec applies   *)
(* getCritique to every outcome of its oracle call.                        *)
(*                                                                         *)
(* Scores are kept in tenths of a point (5.1 is 51), so that the 0.3 gain  *)
(* threshold is the integer 3.  Texts are entries of a small catalogue of  *)
(* concrete texts, each described by the features the code reads.          *)
(***************************************************************************)
EXTENDS Integers, Sequences, FiniteSets, TLC

VARIABLES
    run,              \* "refine" (selfRefinePrompt) or "enhance" (ProgressiveEnhancer.enhance);
                      \* "gateway" / "getCritique" where a function is exercised on its own
    config,           \* ImprovementConfig: maxClaudeCalls, maxIterations, targetQuality
    originalPrompt,   \* the input text of the run
    currentPrompt,    \* let currentPrompt
    claudeCalls,      \* let claudeCalls
    iterations,       \* const iterations: RefinementIteration[]
    critique,         \* the critique local of the loop body, live across the improve call
    pc,               \* position of the run: "loop", "improve", "layers", "returned", "threw"
                      \* ("gateway", "getCritique", "parsed" outside a run)
    result,           \* the value the run returned (NoResult before)
    refineCache,      \* RefineCache.cache: key -> response
    enhancementCache, \* EnhancementCache.cache: key -> response
    layerIdx,         \* index of the layer the for-loop of enhance is at
    layerResults,     \* const layerResults: EnhancementResult[]
    context,          \* the EnhancementContext of the run (previousLayers is its only mutable field)
    oracleCalls,      \* history: invocations of the claude process so far (failed ones included)
    critiqueCalls,    \* history: callClaude calls made by getCritique
    improveCalls,     \* history: callClaude calls made by improvePromptIteration
    improveFailed,    \* history: an improve oracle call of this run has failed
    oracleFailures,   \* history: invocations of the claude process of this run that failed
    runs,             \* invocations of selfRefinePrompt / enhance this process has started
    now,              \* Date.now(), in quarter hours (read by the gateway specification)
    stamps,           \* the timestamp fields of the cache entries, per cache and key
    lastCall,         \* history: the latest call of a gateway function and its outcome
    answered,         \* history: per gateway and key, the latest answer of the oracle and its time
    applied,          \* the latest application of a pure function exercised on its own:
                      \* its arguments and its value
    caches,           \* the Map of each cache object, entries with their timestamp
                      \* (followed by the specification of the cache classes)
    callers,          \* the callClaude calls in flight when two runs execute at once:
                      \* per caller its position, temp file, request and response
    tempFiles         \* the files /tmp/self-refine-<ms>.txt: per timestamp the content

vars == <<run, config, originalPrompt, currentPrompt, claudeCalls, iterations,
          critique, pc, result, refineCache, enhancementCache, layerIdx,
          layerResults, context, oracleCalls, critiqueCalls,
          improveCalls, improveFailed, oracleFailures, runs,
          now, stamps, lastCall, answered, applied, caches, callers,
          tempFiles>>

\* the clock, the timestamps and the gateway history, which the run
\* specifications leave alone (they abstract expiry by CacheGet's fresh)
clockVars == <<now, stamps, lastCall, answered>>

\* the locals of a run and its history
runVars ==
    <<run, config, originalPrompt, currentPrompt, claudeCalls, iterations,
      critique, pc, result, layerIdx, layerResults, context, critiqueCalls,
      improveCalls, improveFailed, oracleFailures, runs>>

----------------------------------------------------------------------------
(* Bounds of the model *)

\* largest maxClaudeCalls a run is configured with
MaxCalls == 7

\* largest maxIterations a run is configured with
MaxIter == 3

\* largest number of invocations one process makes
MaxRuns == 2

----------------------------------------------------------------------------
(* Texts *)

\* the words constraintsLayer.validate counts
ConstraintWords ==
    {"must", "should", "required", "constraint", "limit", "not", "avoid",
     "ensure", "requirement"}

\* occurrence counts of the constraint words of a text in which the words ws
\* occur once each and the others do not occur
Once(ws) == [w \in ConstraintWords |-> IF w \in ws THEN 1 ELSE 0]

\* The texts of the model, each by the features the code reads:
\*   len      text.length
\*   lines    text.split('\n').length
\*   head100, head50   name the first 100 / 50 characters (texts with the same
\*            head share that prefix)
\*   overall  analyzePrompt(text).qualityScores.overall, in tenths
\*   marks    the case-sensitive substrings it contains, among # "- " "* " "1."
\*            e.g. "for instance" "such as" must required example, code-fence for
\*            three backquotes, and
\*            digit-dot-space for a match of /\d+\.\s/
\*   lower    the words its toLowerCase() contains, among the context words,
\*            the criteria words and example
\*   count    text.toLowerCase().split(word).length - 1 per constraint word
\* The texts are
\*   1  "Write a sorting function"
\*   2  "Write a function that sorts a list of user records by last name and
\*       returns the sorted list to them."
\*   3  text 2 + " Keep it short."
\*   4  text 2 + a paragraph "Background: the records come from a CSV export;
\*       assume every record has a last name."
\*   5  "# Task" + the request of text 2 as three "- " bullets
\*   6  text 5 + "## Example" + "For example, sort(['Zed', 'Abe']) returns ..."
\*   7  text 6 + "The function must not change its input and should avoid
\*       copying."
\*   8  text 7 + "Success criteria: the tests pass."
\*   9  text 2 + " Now."                 (1.05 times the length of text 2)
\*  10  text 2 + " Go ahead."            (1.1 times the length of text 2)
\*  11  text 2 + " Handle edge cases such as empty lists."
\*  12  text 11 + " Also handle odd inputs such as a single record."
\*  13  text 2 + " Use Python, please."
\*  14  text 13 + " Soon."              (1.05 times the length of text 13)
\*  15  text 2 + an empty line + "Now"   (1.05 times the length of text 2)
\*  16  ""                            (the empty text, never an input of a run)
Catalogue ==
    <<
      [len |-> 24, lines |-> 1, head100 |-> 1, head50 |-> 1, overall |-> 40,
       marks |-> {}, lower |-> {}, count |-> Once({})],
      [len |-> 100, lines |-> 1, head100 |-> 2, head50 |-> 2, overall |-> 55,
       marks |-> {}, lower |-> {}, count |-> Once({})],
      [len |-> 115, lines |-> 1, head100 |-> 2, head50 |-> 2, overall |-> 55,
       marks |-> {}, lower |-> {}, count |-> Once({})],
      [len |-> 186, lines |-> 3, head100 |-> 2, head50 |-> 2, overall |-> 60,
       marks |-> {}, lower |-> {"background", "assume"}, count |-> Once({})],
      [len |-> 126, lines |-> 7, head100 |-> 5, head50 |-> 5, overall |-> 65,
       marks |-> {"#", "- "}, lower |-> {}, count |-> Once({})],
      [len |-> 197, lines |-> 11, head100 |-> 5, head50 |-> 5, overall |-> 70,
       marks |-> {"#", "- ", "example"}, lower |-> {"example"}, count |-> Once({})],
      [len |-> 263, lines |-> 13, head100 |-> 5, head50 |-> 5, overall |-> 75,
       marks |-> {"#", "- ", "must", "example"}, lower |-> {"example"},
       count |-> Once({"must", "should", "not", "avoid"})],
      [len |-> 298, lines |-> 15, head100 |-> 5, head50 |-> 5, overall |-> 80,
       marks |-> {"#", "- ", "must", "example"},
       lower |-> {"success", "criteria", "example"},
       count |-> Once({"must", "should", "not", "avoid"})],
      [len |-> 105, lines |-> 1, head100 |-> 2, head50 |-> 2, overall |-> 55,
       marks |-> {}, lower |-> {}, count |-> Once({})],
      [len |-> 110, lines |-> 1, head100 |-> 2, head50 |-> 2, overall |-> 55,
       marks |-> {}, lower |-> {}, count |-> Once({})],
      [len |-> 139, lines |-> 1, head100 |-> 2, head50 |-> 2, overall |-> 55,
       marks |-> {"such as"}, lower |-> {}, count |-> Once({})],
      [len |-> 187, lines |-> 1, head100 |-> 2, head50 |-> 2, overall |-> 55,
       marks |-> {"such as"}, lower |-> {}, count |-> Once({})],
      [len |-> 120, lines |-> 1, head100 |-> 2, head50 |-> 2, overall |-> 55,
       marks |-> {}, lower |-> {}, count |-> Once({})],
      [len |-> 126, lines |-> 1, head100 |-> 2, head50 |-> 2, overall |-> 55,
       marks |-> {}, lower |-> {}, count |-> Once({})],
      [len |-> 105, lines |-> 3, head100 |-> 2, head50 |-> 2, overall |-> 55,
       marks |-> {}, lower |-> {}, count |-> Once({})],
      [len |-> 0, lines |-> 1, head100 |-> 16, head50 |-> 16, overall |-> 0,
       marks |-> {}, lower |-> {}, count |-> Once({})]
    >>

Texts == 1..Len(Catalogue)

\* the texts a run may be started on
InputTexts == {1, 2}

\* the texts the oracle answers an improve request with
ImproveTexts == {4, 5}

\* a response of the oracle that is the text t
TextResponse(t) == [kind |-> "text", text |-> t]

----------------------------------------------------------------------------
(* Configuration *)

\* config.targetQuality values of the runs, in tenths (7.0 and 8.5 are the
\* defaults of the modes fast and balanced)
TargetQualities == {70, 85}

Configs ==
    [maxClaudeCalls : 0..MaxCalls,
     maxIterations  : 1..MaxIter,
     targetQuality  : TargetQualities]

\* mode fast given the call budget of mode balanced
FastConfigWithBalancedCalls ==
    [maxClaudeCalls |-> 5, maxIterations |-> 1, targetQuality |-> 70]

\* DEFAULT_CONFIG.modes.fast, the fields the two components read (one of
\* Configs)
FastConfig == [maxClaudeCalls |-> 2, maxIterations |-> 1, targetQuality |-> 70]

\* enhance reads maxClaudeCalls only: its runs take one value of the others
EnhanceConfigs == {c \in Configs : c.maxIterations = 1 /\ c.targetQuality = 85}

----------------------------------------------------------------------------
(* Response caches and the oracle gateway *)

\* no pure function has been applied on its own
NoApplication == [fn |-> "none"]

NoEntry == [none |-> TRUE]

\* the cache objects of a process: refineCache (self-refine.ts),
\* enhancementCache (part_001) and dynamicCache (dynamic-analysis.ts)
CacheNames == {"refine", "enhance", "dynamic"}

\* the key followed in each cache object
CacheKeys == {"key"}

\* the Maps of the cache objects when the modules have been loaded
NoCaches == [c \in CacheNames |-> [k \in CacheKeys |-> NoEntry]]

NoResponse == [absent |-> TRUE]

\* the empty response text
EmptyText == [kind |-> "empty", score |-> 0, cont |-> FALSE, lists |-> FALSE]

\* RefineCache.generateKey: `${type}:${prompt.substring(0, 100)}`
GenerateKey(prompt, type) == <<type, Catalogue[prompt].head100>>

RefineKeys == {"critique", "improve"} \X {Catalogue[t].head100 : t \in Texts}

\* RefineCache.get / EnhancementCache.get.  fresh says whether
\* Date.now() - entry.timestamp < maxAge; an entry that is not served is
\* deleted.
CacheGet(cache, key, fresh) ==
    IF cache[key] # NoEntry /\ fresh
    THEN [value |-> cache[key], cache |-> cache]
    ELSE [value |-> NoResponse, cache |-> [cache EXCEPT ![key] = NoEntry]]

\* RefineCache.set / EnhancementCache.set
CacheSet(cache, key, response) == [cache EXCEPT ![key] = response]

\* JavaScript truthiness of what get returned: null and "" are falsy
Truthy(value) == value # NoResponse /\ value # EmptyText

\* The outcomes of callClaude(prompt, cacheKey) / callClaudeForLayer when the
\* age test of get gives fresh: a cache hit returns without running the
\* oracle; otherwise the oracle process is run once and either fails (the
\* call throws) or answers with one of answers, which is stored under the key.
CallOutcomesWhen(cache, key, answers, fresh) ==
    LET got == CacheGet(cache, key, fresh)
    IN  IF Truthy(got.value)
        THEN {[ok |-> TRUE, response |-> got.value,
               cache |-> got.cache, invoked |-> FALSE]}
        ELSE {[ok |-> FALSE, response |-> NoResponse,
               cache |-> got.cache, invoked |-> TRUE]}
             \cup
             {[ok |-> TRUE, response |-> a,
               cache |-> CacheSet(got.cache, key, a), invoked |-> TRUE]
                : a \in answers}

\* the outcomes of a call at an unknown time: an entry may have expired
CallOutcomes(cache, key, answers) ==
    UNION { CallOutcomesWhen(cache, key, answers, fresh)
          : fresh \in (IF cache[key] = NoEntry THEN {FALSE} ELSE BOOLEAN) }

callClaude(cache, key, answers) == CallOutcomes(cache, key, answers)

----------------------------------------------------------------------------
(* getCritique *)

\* score values the oracle puts in a critique, in tenths; 120 is out of range
RawScores == {50, 51, 70, 90, 120}

\* values of the sub-scores clarity, effectiveness and completeness the oracle
\* puts in a critique, in tenths; -10 and 120 are out of range
RawSubScores == {-10, 0, 70, 100, 120}

\* the sub-score value of the critiques of the runs
RunSubScores == {70}

\* What the oracle answers a critique request with, classified by what
\* JSON.parse makes of the text (after the ```json fence is removed):
\*   empty      the empty text
\*   notjson    text that is not JSON
\*   primitive  JSON null, a number, a string or a boolean
\*   object     a JSON object: score, the sub-scores, truthiness of
\*              shouldContinue, and lists: whether improvements and concerns
\*              are both arrays
\* with the sub-scores drawn from subs
CritiqueResponses(subs) ==
    [kind : {"object"}, score : RawScores, cont : BOOLEAN, lists : BOOLEAN,
     clarity : subs, effectiveness : subs, completeness : subs]
    \cup {EmptyText}
    \cup {[kind |-> k, score |-> 0, cont |-> FALSE, lists |-> FALSE]
            : k \in {"notjson", "primitive"}}

\* the critique responses of the runs
RawCritiques == CritiqueResponses(RunSubScores)

FallbackScore == 60

DefaultScore == 50

MaxScore == 100

\* a catch block returning the default score of the try block
FallbackCritiqueFive ==
    [score |-> DefaultScore, clarity |-> DefaultScore, effectiveness |-> DefaultScore,
     completeness |-> DefaultScore, shouldContinue |-> FALSE, lists |-> TRUE]

\* the fallback critique of the catch block
FallbackCritique ==
    [score |-> FallbackScore, clarity |-> FallbackScore, effectiveness |-> FallbackScore,
     completeness |-> FallbackScore, shouldContinue |-> FALSE, lists |-> TRUE]

\* The try block of getCritique on a response text.  JSON.parse throws on
\* empty and non-JSON text; on a primitive the read of .score (null) or the
\* assignment of .score (strict mode) throws; every throw lands in the catch.
\* Only score is sanitized: the other fields are returned as parsed.
ParseCritique(raw) ==
    IF raw.kind # "object"
    THEN FallbackCritique
    ELSE [score |-> IF raw.score < 0 \/ raw.score > MaxScore
                    THEN DefaultScore ELSE raw.score,
          clarity |-> raw.clarity,
          effectiveness |-> raw.effectiveness,
          completeness |-> raw.completeness,
          shouldContinue |-> raw.cont,
          lists |-> raw.lists]

\* getCritique on the outcome of its callClaude call
getCritique(outcome) ==
    IF outcome.ok THEN ParseCritique(outcome.response) ELSE FallbackCritique

----------------------------------------------------------------------------
(* shouldContinueRefinement *)

MinGain == 3

shouldContinueRefinement(its, cfg) ==
    IF Len(its) = 0
    THEN [shouldContinue |-> TRUE, reason |-> "no_iterations_yet"]
    ELSE LET latest == its[Len(its)]
         IN  IF latest.critique.score >= cfg.targetQuality
             THEN [shouldContinue |-> FALSE, reason |-> "quality_achieved"]
             ELSE IF Len(its) >= cfg.maxIterations
             THEN [shouldContinue |-> FALSE, reason |-> "max_iterations"]
             ELSE IF Len(its) >= 2
                     /\ latest.critique.score - its[Len(its) - 1].critique.score < MinGain
             THEN [shouldContinue |-> FALSE, reason |-> "diminishing_returns"]
             ELSE IF ~latest.critique.shouldContinue
             THEN [shouldContinue |-> FALSE, reason |-> "claude_recommendation"]
             ELSE [shouldContinue |-> TRUE, reason |-> "continue_improving"]

----------------------------------------------------------------------------
(* selfRefinePrompt *)

NoResult == [returned |-> FALSE]

NoCritique == [score |-> 0, shouldContinue |-> FALSE, lists |-> FALSE]

\* the stop test with the reserve taken on the wrong side of the budget
ClaudeLimitReachedLate(calls, cfg) == calls >= cfg.maxClaudeCalls + 1

\* the budget half of the stop test: claudeCalls >= config.maxClaudeCalls - 1
ClaudeLimitReached(calls, cfg) == calls >= cfg.maxClaudeCalls - 1

\* the condition of the while loop
LoopGuard(calls, cfg) == calls < cfg.maxClaudeCalls

\* initialAnalysis.qualityScores.overall
Baseline == Catalogue[originalPrompt].overall

\* The decision the loop body takes on the iterations recorded before this
\* critique is pushed (shouldContinueRefinement is called before the push).
LoopDecision(its, cfg) == shouldContinueRefinement(its, cfg)

\* the iteration record numbered from zero
IterationRecordZeroBased(its, prompt, crit) ==
    [iteration   |-> Len(its),
     prompt      |-> prompt,
     critique    |-> crit,
     qualityGain |-> IF Len(its) > 0
                     THEN crit.score - its[Len(its)].critique.score
                     ELSE crit.score - Catalogue[originalPrompt].overall]

\* the iteration record of one pass of the loop body
IterationRecord(its, prompt, crit) ==
    [iteration   |-> Len(its) + 1,
     prompt      |-> prompt,
     critique    |-> crit,
     qualityGain |-> IF Len(its) > 0
                     THEN crit.score - its[Len(its)].critique.score
                     ELSE crit.score - Baseline]

\* One pass of the loop body up to the stop test: getCritique, claudeCalls++,
\* the decision, the push, and either the return or the hand-over to
\* improvePromptIteration.
CritiqueOn(answers) ==
    /\ run = "refine"
    /\ pc = "loop"
    /\ LoopGuard(claudeCalls, config)
    /\ \E out \in callClaude(refineCache, GenerateKey(currentPrompt, "critique"), answers) :
         LET crit  == getCritique(out)
             calls == claudeCalls + 1
             dec   == LoopDecision(iterations, config)
             its   == Append(iterations, IterationRecord(iterations, currentPrompt, crit))
         IN  /\ refineCache' = out.cache
             /\ oracleCalls' = oracleCalls + (IF out.invoked THEN 1 ELSE 0)
             /\ oracleFailures' = oracleFailures + (IF out.invoked /\ ~out.ok THEN 1 ELSE 0)
             /\ critiqueCalls' = critiqueCalls + 1
             /\ claudeCalls' = calls
             /\ iterations' = its
             /\ critique' = crit
             /\ IF ~dec.shouldContinue \/ ClaudeLimitReached(calls, config)
                THEN /\ pc' = "returned"
                     /\ result' =
                          [returned          |-> TRUE,
                           finalPrompt       |-> currentPrompt,
                           iterations        |-> its,
                           totalIterations   |-> Len(its),
                           finalQuality      |-> crit.score,
                           totalQualityGain  |-> crit.score - Baseline,
                           totalClaudeCalls  |-> calls,
                           convergenceReason |->
                               IF ClaudeLimitReached(calls, config)
                               THEN "claude_limit" ELSE dec.reason]
                ELSE /\ pc' = "improve"
                     /\ result' = result
    /\ UNCHANGED <<callers, tempFiles, applied, caches, clockVars, runs,
                   run, config, originalPrompt, currentPrompt, enhancementCache,
                   layerIdx, layerResults, context, improveCalls, improveFailed>>

\* the pass of the loop body in the runs, whose oracle answers a critique
\* request with one of RawCritiques
Critique == CritiqueOn(RawCritiques)

\* improvePromptIteration builds its request from critique.improvements.join
\* and critique.concerns.join before its try block: a critique without those
\* arrays makes it throw a TypeError, which selfRefinePrompt does not catch.
ImproveThrows ==
    /\ run = "refine"
    /\ pc = "improve"
    /\ ~critique.lists
    /\ pc' = "threw"
    /\ UNCHANGED <<callers, tempFiles, applied, caches, clockVars, oracleFailures, runs,
                   run, config, originalPrompt, currentPrompt, claudeCalls, iterations,
                   critique, result, refineCache, enhancementCache, layerIdx,
                   layerResults, context, oracleCalls, critiqueCalls,
                   improveCalls, improveFailed>>

\* improvePromptIteration, claudeCalls++ and the assignment of currentPrompt:
\* a failed call returns the prompt it was given.
ImproveOn(texts) ==
    /\ run = "refine"
    /\ pc = "improve"
    /\ critique.lists
    /\ \E out \in callClaude(refineCache, GenerateKey(currentPrompt, "improve"),
                             {TextResponse(t) : t \in texts}) :
         /\ refineCache' = out.cache
         /\ oracleCalls' = oracleCalls + (IF out.invoked THEN 1 ELSE 0)
         /\ oracleFailures' = oracleFailures + (IF out.invoked /\ ~out.ok THEN 1 ELSE 0)
         /\ improveCalls' = improveCalls + 1
         /\ improveFailed' = (improveFailed \/ ~out.ok)
         /\ claudeCalls' = claudeCalls + 1
         /\ currentPrompt' = IF out.ok THEN out.response.text ELSE currentPrompt
    /\ pc' = "loop"
    /\ UNCHANGED <<callers, tempFiles, applied, caches, clockVars, runs,
                   run, config, originalPrompt, iterations, critique, result,
                   enhancementCache, layerIdx, layerResults, context,
                   critiqueCalls>>

\* the same in the runs, whose oracle answers an improve request with one of
\* ImproveTexts
Improve == ImproveOn(ImproveTexts)

\* the return after the while loop
LoopExit ==
    /\ run = "refine"
    /\ pc = "loop"
    /\ ~LoopGuard(claudeCalls, config)
    /\ pc' = "returned"
    /\ LET n    == Len(iterations)
           last == IF n > 0 THEN iterations[n].critique.score ELSE 0
       IN  result' =
             [returned          |-> TRUE,
              finalPrompt       |-> currentPrompt,
              iterations        |-> iterations,
              totalIterations   |-> n,
              finalQuality      |-> IF last # 0 THEN last ELSE Baseline,
              totalQualityGain  |-> last - Baseline,
              totalClaudeCalls  |-> claudeCalls,
              convergenceReason |-> "claude_limit"]
    /\ UNCHANGED <<callers, tempFiles, applied, caches, clockVars, oracleFailures, runs,
                   run, config, originalPrompt, currentPrompt, claudeCalls, iterations,
                   critique, refineCache, enhancementCache, layerIdx, layerResults,
                   context, oracleCalls, critiqueCalls, improveCalls,
                   improveFailed>>

----------------------------------------------------------------------------
(* The enhancement layers *)

Has(text, mark) == mark \in Catalogue[text].marks

HasLower(text, word) == word \in Catalogue[text].lower

\* after.length / before.length >= num / den, as JavaScript evaluates it: a
\* zero before gives Infinity (or NaN for 0 / 0, for which every test fails)
RatioAtLeast(before, after, num, den) ==
    IF Catalogue[before].len = 0
    THEN Catalogue[after].len > 0
    ELSE Catalogue[after].len * den >= Catalogue[before].len * num

\* after.length / before.length <= num / den
RatioAtMost(before, after, num, den) ==
    /\ Catalogue[before].len # 0
    /\ Catalogue[after].len * den <= Catalogue[before].len * num

ContextWords == {"context", "background", "consider", "given", "assume", "requirements"}

CriteriaWords ==
    {"success", "criteria", "measure", "evaluate", "assess", "quality", "validate", "check"}

\* structureLayer.validate accepting any growth in length below 250%
StructureValidateAnyGrowth(before, after) ==
    /\ \/ Catalogue[after].lines > Catalogue[before].lines
       \/ Has(after, "#")
       \/ Has(after, "- ") \/ Has(after, "* ")
       \/ Has(after, "digit-dot-space")
    /\ Catalogue[after].len > Catalogue[before].len
    /\ Catalogue[after].len * 10 < Catalogue[before].len * 25

\* structureLayer.validate without the floor on the length
StructureValidateNoFloor(before, after) ==
    /\ \/ Catalogue[after].lines > Catalogue[before].lines
       \/ Has(after, "#")
       \/ Has(after, "- ") \/ Has(after, "* ")
       \/ Has(after, "digit-dot-space")
    /\ Catalogue[after].len * 10 < Catalogue[before].len * 25

\* structureLayer.validate
StructureValidate(before, after) ==
    /\ \/ Catalogue[after].lines > Catalogue[before].lines
       \/ Has(after, "#")
       \/ Has(after, "- ") \/ Has(after, "* ")
       \/ Has(after, "digit-dot-space")
    /\ Catalogue[after].len * 10 > Catalogue[before].len * 11
    /\ Catalogue[after].len * 10 < Catalogue[before].len * 25

\* contextLayer.validate
ContextValidate(before, after) ==
    /\ RatioAtLeast(before, after, 12, 10)
    /\ RatioAtMost(before, after, 30, 10)
    /\ \E w \in ContextWords : HasLower(after, w) /\ ~HasLower(before, w)

\* examplesLayer.validate
ExamplesValidate(before, after) ==
    /\ \/ HasLower(after, "example")
       \/ Has(after, "e.g.")
       \/ Has(after, "for instance")
       \/ Has(after, "code-fence")
       \/ Has(after, "such as")
    /\ RatioAtLeast(before, after, 115, 100)
    /\ RatioAtMost(before, after, 25, 10)

\* constraintsLayer.validate
ConstraintsValidate(before, after) ==
    /\ \E w \in ConstraintWords : Catalogue[after].count[w] > Catalogue[before].count[w]
    /\ RatioAtLeast(before, after, 11, 10)
    /\ RatioAtMost(before, after, 20, 10)

\* successCriteriaLayer.validate
SuccessValidate(before, after) ==
    /\ \E w \in CriteriaWords : HasLower(after, w) /\ ~HasLower(before, w)
    /\ RatioAtLeast(before, after, 105, 100)
    /\ RatioAtMost(before, after, 15, 10)

structureLayer ==
    [name |-> "Structure & Clarity", key |-> "structure", priority |-> 1,
     skipConditions |-> {"already_structured", "very_short_prompt"}]

contextLayer ==
    [name |-> "Context & Background", key |-> "context", priority |-> 2,
     skipConditions |-> {"context_rich", "very_long_prompt"}]

examplesLayer ==
    [name |-> "Examples & Patterns", key |-> "examples", priority |-> 3,
     skipConditions |-> {"example_rich", "simple_task"}]

constraintsLayer ==
    [name |-> "Constraints & Requirements", key |-> "constraints", priority |-> 4,
     skipConditions |-> {"constraint_heavy", "creative_task"}]

successCriteriaLayer ==
    [name |-> "Success Criteria & Validation", key |-> "success", priority |-> 5,
     skipConditions |-> {"criteria_defined", "simple_output"}]

\* ProgressiveEnhancer.layers
Layers ==
    <<structureLayer, contextLayer, examplesLayer, constraintsLayer, successCriteriaLayer>>

\* layer.validate(before, after, context)
Validate(layer, before, after) ==
    CASE layer.key = "structure"   -> StructureValidate(before, after)
      [] layer.key = "context"     -> ContextValidate(before, after)
      [] layer.key = "examples"    -> ExamplesValidate(before, after)
      [] layer.key = "constraints" -> ConstraintsValidate(before, after)
      [] layer.key = "success"     -> SuccessValidate(before, after)

\* the candidate taken whether validation passed or not
NextPromptUnvalidated(layer, before, candidate) == candidate

\* the current prompt after the candidate of a layer has been validated: the
\* candidate if validation passed, the prompt before otherwise
NextPrompt(layer, before, candidate) ==
    IF Validate(layer, before, candidate) THEN candidate ELSE before

NoReason == "undefined"

\* ProgressiveEnhancer.shouldSkipLayer
shouldSkipLayer(layer, prompt) ==
    IF "very_short_prompt" \in layer.skipConditions /\ Catalogue[prompt].len < 50
    THEN [skip |-> TRUE, reason |-> "prompt_too_short"]
    ELSE IF "very_long_prompt" \in layer.skipConditions /\ Catalogue[prompt].len > 2000
    THEN [skip |-> TRUE, reason |-> "prompt_too_long"]
    ELSE IF /\ "already_structured" \in layer.skipConditions
            /\ (Has(prompt, "#") \/ Has(prompt, "- ") \/ Has(prompt, "1."))
    THEN [skip |-> TRUE, reason |-> "already_has_structure"]
    ELSE IF /\ "example_rich" \in layer.skipConditions
            /\ (HasLower(prompt, "example") \/ Has(prompt, "e.g."))
    THEN [skip |-> TRUE, reason |-> "already_has_examples"]
    ELSE IF /\ "constraint_heavy" \in layer.skipConditions
            /\ (Has(prompt, "must") \/ Has(prompt, "required"))
    THEN [skip |-> TRUE, reason |-> "already_has_constraints"]
    ELSE [skip |-> FALSE, reason |-> NoReason]

\* ProgressiveEnhancer.extractImprovements (the percentage of the last entry
\* is left out of its text)
extractImprovements(before, after) ==
    (IF Has(after, "#") /\ ~Has(before, "#")
     THEN <<"Added headers and structure">> ELSE <<>>)
    \o (IF (Has(after, "- ") \/ Has(after, "* ")) /\ ~(Has(before, "- ") \/ Has(before, "* "))
        THEN <<"Added bullet points">> ELSE <<>>)
    \o (IF Has(after, "example") /\ ~Has(before, "example")
        THEN <<"Added examples">> ELSE <<>>)
    \o (IF Has(after, "code-fence") /\ ~Has(before, "code-fence")
        THEN <<"Added code blocks or templates">> ELSE <<>>)
    \o (IF \/ Catalogue[before].len = 0 /\ Catalogue[after].len > 0
           \/ /\ Catalogue[before].len # 0
              /\ (Catalogue[after].len - Catalogue[before].len) * 10 > 2 * Catalogue[before].len
        THEN <<"Expanded content">> ELSE <<>>)

\* ProgressiveEnhancer.calculateOverallImprovement, in hundredths rounded
\* down; an empty original makes the ratio Infinity or NaN, reported here as
\* the cap
calculateOverallImprovement(original, final) ==
    LET ratio == IF Catalogue[original].len = 0 THEN 300
                 ELSE (Catalogue[final].len * 100) \div Catalogue[original].len
        structureBonus == IF Has(final, "#") \/ Has(final, "- ") THEN 50 ELSE 0
        exampleBonus   == IF Has(final, "example") \/ Has(final, "code-fence") THEN 30 ELSE 0
        sum == ratio + structureBonus + exampleBonus
    IN  IF sum < 300 THEN sum ELSE 300

----------------------------------------------------------------------------
(* ProgressiveEnhancer.enhance *)

\* the dynamicAnalysis argument of enhance: undefined, or an analysis of which
\* domainConfidence (in tenths) and expertiseLevel are read
NoAnalysis == [defined |-> FALSE, domainConfidence |-> 0, expertiseLevel |-> "intermediate"]

DynamicAnalyses ==
    {NoAnalysis, [defined |-> TRUE, domainConfidence |-> 8, expertiseLevel |-> "expert"]}

\* the EnhancementContext enhance creates
NewContext(analysis) ==
    [domainSpecific |-> IF analysis.defined /\ analysis.domainConfidence # 0
                        THEN analysis.domainConfidence > 7 ELSE FALSE,
     expertiseLevel |-> IF analysis.defined THEN analysis.expertiseLevel ELSE "intermediate",
     iterationCount |-> 1,
     previousLayers |-> <<>>]

Contexts == {NewContext(a) : a \in DynamicAnalyses}

\* EnhancementCache.generateKey:
\* `${layerName}:${expertiseLevel}_${domainSpecific}_${iterationCount}:${prompt.substring(0, 50)}`
EnhancementKey(layerKey, prompt, ctx) ==
    <<layerKey, ctx.expertiseLevel, ctx.domainSpecific, ctx.iterationCount,
      Catalogue[prompt].head50>>

EnhancementKeys ==
    {EnhancementKey(Layers[i].key, t, c) : i \in 1..Len(Layers), t \in Texts, c \in Contexts}

\* the texts the oracle answers a layer request with
EnhanceTexts == {3, 4, 5, 6, 7, 8}

callClaudeForLayer(cache, key, answers) == CallOutcomes(cache, key, answers)

\* the budget test at the head of the layer loop
LayerBudgetExhausted(calls, cfg) == calls >= cfg.maxClaudeCalls - 1

SkippedResult(layer, prompt, reason) ==
    [layerName        |-> layer.name,
     originalPrompt   |-> prompt,
     enhancedPrompt   |-> prompt,
     improvements     |-> <<>>,
     validationPassed |-> FALSE,
     skipped          |-> TRUE,
     skipReason       |-> reason]

\* the budget test leaving the layer loop instead of recording the skip
BudgetSkipBreaks ==
    /\ run = "enhance"
    /\ pc = "layers"
    /\ layerIdx <= Len(Layers)
    /\ LayerBudgetExhausted(claudeCalls, config)
    /\ layerIdx' = Len(Layers) + 1
    /\ UNCHANGED <<callers, tempFiles, applied, caches, clockVars, oracleFailures, runs,
                   run, config, originalPrompt, currentPrompt, claudeCalls, iterations,
                   critique, pc, result, refineCache, enhancementCache, layerResults,
                   context, oracleCalls, critiqueCalls, improveCalls, improveFailed>>

\* the layer is not attempted: the call budget is used up
BudgetSkip ==
    /\ run = "enhance"
    /\ pc = "layers"
    /\ layerIdx <= Len(Layers)
    /\ LayerBudgetExhausted(claudeCalls, config)
    /\ layerResults' = Append(layerResults,
                              SkippedResult(Layers[layerIdx], currentPrompt, "claude_call_limit"))
    /\ layerIdx' = layerIdx + 1
    /\ UNCHANGED <<callers, tempFiles, applied, caches, clockVars, oracleFailures, runs,
                   run, config, originalPrompt, currentPrompt, claudeCalls, iterations,
                   critique, pc, result, refineCache, enhancementCache, context,
                   oracleCalls, critiqueCalls, improveCalls, improveFailed>>

\* a skip on a skip condition that counts as a call
ConditionSkipCounted ==
    /\ run = "enhance"
    /\ pc = "layers"
    /\ layerIdx <= Len(Layers)
    /\ ~LayerBudgetExhausted(claudeCalls, config)
    /\ shouldSkipLayer(Layers[layerIdx], currentPrompt).skip
    /\ layerResults' = Append(layerResults,
                              SkippedResult(Layers[layerIdx], currentPrompt,
                                            shouldSkipLayer(Layers[layerIdx], currentPrompt).reason))
    /\ claudeCalls' = claudeCalls + 1
    /\ layerIdx' = layerIdx + 1
    /\ UNCHANGED <<callers, tempFiles, applied, caches, clockVars, oracleFailures, runs,
                   run, config, originalPrompt, currentPrompt, iterations,
                   critique, pc, result, refineCache, enhancementCache, context,
                   oracleCalls, critiqueCalls, improveCalls, improveFailed>>

\* the layer is not attempted: one of its skip conditions holds
ConditionSkip ==
    /\ run = "enhance"
    /\ pc = "layers"
    /\ layerIdx <= Len(Layers)
    /\ ~LayerBudgetExhausted(claudeCalls, config)
    /\ shouldSkipLayer(Layers[layerIdx], currentPrompt).skip
    /\ layerResults' = Append(layerResults,
                              SkippedResult(Layers[layerIdx], currentPrompt,
                                            shouldSkipLayer(Layers[layerIdx], currentPrompt).reason))
    /\ layerIdx' = layerIdx + 1
    /\ UNCHANGED <<callers, tempFiles, applied, caches, clockVars, oracleFailures, runs,
                   run, config, originalPrompt, currentPrompt, claudeCalls, iterations,
                   critique, pc, result, refineCache, enhancementCache, context,
                   oracleCalls, critiqueCalls, improveCalls, improveFailed>>

\* The try block of the loop body: layer.apply, claudeCalls++, validate, the
\* push, and the update of currentPrompt and context.previousLayers.  A
\* failed apply call lands in the catch block, which records layer_failed and
\* leaves claudeCalls as it was.
ApplyLayer ==
    /\ run = "enhance"
    /\ pc = "layers"
    /\ layerIdx <= Len(Layers)
    /\ ~LayerBudgetExhausted(claudeCalls, config)
    /\ ~shouldSkipLayer(Layers[layerIdx], currentPrompt).skip
    /\ \E out \in callClaudeForLayer(enhancementCache,
                                     EnhancementKey(Layers[layerIdx].key, currentPrompt, context),
                                     {TextResponse(t) : t \in EnhanceTexts}) :
         LET layer == Layers[layerIdx]
         IN  /\ enhancementCache' = out.cache
             /\ oracleCalls' = oracleCalls + (IF out.invoked THEN 1 ELSE 0)
             /\ oracleFailures' = oracleFailures + (IF out.invoked /\ ~out.ok THEN 1 ELSE 0)
             /\ IF out.ok
                THEN LET enhanced == out.response.text
                         validationPassed == Validate(layer, currentPrompt, enhanced)
                     IN  /\ claudeCalls' = claudeCalls + 1
                         /\ layerResults' = Append(layerResults,
                               [layerName        |-> layer.name,
                                originalPrompt   |-> currentPrompt,
                                enhancedPrompt   |-> enhanced,
                                improvements     |-> extractImprovements(currentPrompt, enhanced),
                                validationPassed |-> validationPassed,
                                skipped          |-> FALSE,
                                skipReason       |-> NoReason])
                         /\ currentPrompt' = NextPrompt(layer, currentPrompt, enhanced)
                         /\ context' = IF validationPassed
                                       THEN [context EXCEPT !.previousLayers = Append(@, layer.name)]
                                       ELSE context
                ELSE /\ claudeCalls' = claudeCalls
                     /\ layerResults' = Append(layerResults,
                                               SkippedResult(layer, currentPrompt, "layer_failed"))
                     /\ currentPrompt' = currentPrompt
                     /\ context' = context
    /\ layerIdx' = layerIdx + 1
    /\ UNCHANGED <<callers, tempFiles, applied, caches, clockVars, runs,
                   run, config, originalPrompt, iterations, critique, pc, result,
                   refineCache, critiqueCalls, improveCalls, improveFailed>>

\* the return of enhance after the last layer
EnhanceReturn ==
    /\ run = "enhance"
    /\ pc = "layers"
    /\ layerIdx > Len(Layers)
    /\ pc' = "returned"
    /\ result' =
         [returned           |-> TRUE,
          finalPrompt        |-> currentPrompt,
          layerResults       |-> layerResults,
          totalLayers        |-> Len(Layers),
          appliedLayers      |-> Cardinality({i \in 1..Len(layerResults) :
                                    ~layerResults[i].skipped /\ layerResults[i].validationPassed}),
          skippedLayers      |-> Cardinality({i \in 1..Len(layerResults) : layerResults[i].skipped}),
          overallImprovement |-> calculateOverallImprovement(originalPrompt, currentPrompt),
          claudeCalls        |-> claudeCalls]
    /\ UNCHANGED <<callers, tempFiles, applied, caches, clockVars, oracleFailures, runs,
                   run, config, originalPrompt, currentPrompt, claudeCalls, iterations,
                   critique, refineCache, enhancementCache, layerIdx, layerResults,
                   context, oracleCalls, critiqueCalls, improveCalls, improveFailed>>

----------------------------------------------------------------------------
(* The gateway functions under a clock *)

\* RefineCache.maxAge, 3600000 ms, in quarter hours
RefineMaxAge == 4

\* EnhancementCache.maxAge, 2700000 ms, in quarter hours
EnhancementMaxAge == 3

\* the last value of the clock
MaxTime == 5

\* the number of gateway calls followed
MaxGatewayCalls == 3

\* the timestamp fields of two empty caches (0 where there is no entry)
NoStamps ==
    [refine |-> [k \in RefineKeys |-> 0], enhance |-> [k \in EnhancementKeys |-> 0]]

NoCall ==
    [n |-> 0, gateway |-> "none", key |-> <<>>, ok |-> FALSE, invoked |-> FALSE,
     response |-> NoResponse]

NoAnswer == [response |-> NoResponse, at |-> 0]

NoAnswers ==
    [refine |-> [k \in RefineKeys |-> NoAnswer],
     enhance |-> [k \in EnhancementKeys |-> NoAnswer]]

\* the test of get: entry && Date.now() - entry.timestamp < this.maxAge
IsFresh(entry, stamp, maxAge) == entry # NoEntry /\ now - stamp < maxAge

\* what the oracle answers the calls followed here: the trimmed output of the
\* process, which may be empty
GatewayAnswers == {EmptyText, TextResponse(4), TextResponse(5)}

\* the keys of the calls followed here
GatewayRefineKeys == {GenerateKey(1, "critique"), GenerateKey(1, "improve")}

GatewayLayerKeys ==
    {EnhancementKey("structure", 2, NewContext(NoAnalysis)),
     EnhancementKey("context", 2, NewContext(NoAnalysis))}

\* the timestamp of key after a call with outcome out: set writes Date.now(),
\* a deleted entry has none
StampAfter(stamp, out, key) ==
    IF out.invoked /\ out.ok THEN now
    ELSE IF out.cache[key] = NoEntry THEN 0 ELSE stamp

CallRecord(name, key, out) ==
    [n |-> lastCall.n + 1, gateway |-> name, key |-> key, ok |-> out.ok,
     invoked |-> out.invoked, response |-> out.response]

\* one call of callClaude(prompt, cacheKey) at time now
CallClaudeAt ==
    /\ run = "gateway"
    /\ lastCall.n < MaxGatewayCalls
    /\ \E key \in GatewayRefineKeys :
         \E out \in CallOutcomesWhen(refineCache, key, GatewayAnswers,
                                     IsFresh(refineCache[key], stamps.refine[key], RefineMaxAge)) :
            /\ refineCache' = out.cache
            /\ stamps' = [stamps EXCEPT !.refine[key] = StampAfter(@, out, key)]
            /\ lastCall' = CallRecord("callClaude", key, out)
            /\ answered' = IF out.invoked /\ out.ok
                            THEN [answered EXCEPT !.refine[key] =
                                     [response |-> out.response, at |-> now]]
                            ELSE answered
    /\ UNCHANGED <<callers, tempFiles, applied, caches, runVars, enhancementCache, oracleCalls, now>>

\* one call of callClaudeForLayer(prompt, cacheKey) at time now
CallClaudeForLayerAt ==
    /\ run = "gateway"
    /\ lastCall.n < MaxGatewayCalls
    /\ \E key \in GatewayLayerKeys :
         \E out \in CallOutcomesWhen(enhancementCache, key, GatewayAnswers,
                                     IsFresh(enhancementCache[key], stamps.enhance[key],
                                             EnhancementMaxAge)) :
            /\ enhancementCache' = out.cache
            /\ stamps' = [stamps EXCEPT !.enhance[key] = StampAfter(@, out, key)]
            /\ lastCall' = CallRecord("callClaudeForLayer", key, out)
            /\ answered' = IF out.invoked /\ out.ok
                            THEN [answered EXCEPT !.enhance[key] =
                                     [response |-> out.response, at |-> now]]
                            ELSE answered
    /\ UNCHANGED <<callers, tempFiles, applied, caches, runVars, refineCache, oracleCalls, now>>

\* a quarter of an hour passes
Tick ==
    /\ run = "gateway"
    /\ now < MaxTime
    /\ now' = now + 1
    /\ UNCHANGED <<callers, tempFiles, applied, caches, runVars, refineCache, enhancementCache, oracleCalls, stamps,
                   lastCall, answered>>

----------------------------------------------------------------------------
(* The cache classes under a clock *)

\* DynamicAnalysisCache.maxAge, 1800000 ms, in quarter hours
DynamicMaxAge == 2

\* the maxAge field of each cache object
MaxAgeOf ==
    [refine |-> RefineMaxAge, enhance |-> EnhancementMaxAge, dynamic |-> DynamicMaxAge]

\* the responses stored in the cache objects here
CacheValues == {TextResponse(4), TextResponse(5)}

\* the test of get with <= in place of <
EntryIsFreshInclusive(entry, maxAge) ==
    entry # NoEntry /\ now - (IF entry = NoEntry THEN 0 ELSE entry.timestamp) <= maxAge

\* the test of get on the entry of the Map:
\* entry && Date.now() - entry.timestamp < this.maxAge
EntryIsFresh(entry, maxAge) ==
    entry # NoEntry /\ now - (IF entry = NoEntry THEN 0 ELSE entry.timestamp) < maxAge

\* get(key) of a cache object at time now: a fresh entry is returned and
\* left as it is; otherwise the key is deleted and null returned
CacheGetAt ==
    /\ run = "cache"
    /\ \E c \in CacheNames, k \in CacheKeys :
         LET entry == caches[c][k]
         IN  IF EntryIsFresh(entry, MaxAgeOf[c])
             THEN /\ applied' = [fn |-> "get", cache |-> c, key |-> k,
                                 returned |-> entry.response, deleted |-> FALSE]
                  /\ caches' = caches
             ELSE /\ applied' = [fn |-> "get", cache |-> c, key |-> k,
                                 returned |-> NoResponse, deleted |-> entry # NoEntry]
                  /\ caches' = [caches EXCEPT ![c][k] = NoEntry]
    /\ UNCHANGED <<callers, tempFiles, clockVars, run, config, originalPrompt, currentPrompt, claudeCalls,
                   iterations, critique, pc, result, refineCache, enhancementCache,
                   layerIdx, layerResults, context, oracleCalls, critiqueCalls,
                   improveCalls, improveFailed, oracleFailures, runs>>

\* set(key, response) of a cache object at time now
CacheSetAt ==
    /\ run = "cache"
    /\ \E c \in CacheNames, k \in CacheKeys, response \in CacheValues :
         /\ applied' = [fn |-> "set", cache |-> c, key |-> k, value |-> response]
         /\ caches' = [caches EXCEPT ![c][k] = [response |-> response, timestamp |-> now]]
    /\ UNCHANGED <<callers, tempFiles, clockVars, run, config, originalPrompt, currentPrompt, claudeCalls,
                   iterations, critique, pc, result, refineCache, enhancementCache,
                   layerIdx, layerResults, context, oracleCalls, critiqueCalls,
                   improveCalls, improveFailed, oracleFailures, runs>>

\* a quarter of an hour passes
CacheTick ==
    /\ run = "cache"
    /\ now < MaxTime
    /\ now' = now + 1
    /\ UNCHANGED <<callers, tempFiles, applied, caches, runVars, refineCache, enhancementCache, oracleCalls,
                   stamps, lastCall, answered>>

----------------------------------------------------------------------------
(* runDynamicAnalysis *)

\* the values of DynamicAnalysisResult.improvementPotential
ImprovementPotentials == {"low", "medium", "high", "critical"}

\* the values of DynamicAnalysisResult.expertiseLevel
ExpertiseLevels == {"beginner", "intermediate", "advanced", "expert"}

\* What the oracle answers an analysis request with, classified as the
\* critique responses are.  Of an object:
\*   potential   improvementPotential, "absent" when there is none
\*   level       expertiseLevel, "absent" when there is none
\*   isNumber    typeof domainConfidence === 'number'
\*   confidence  domainConfidence in tenths (0 when it is not a number)
\*   issues      whether domainSpecificIssues is there
AnalysisObjects ==
    {r \in [kind : {"object"},
            potential : ImprovementPotentials \cup {"absent", "extreme"},
            level : ExpertiseLevels \cup {"absent", "guru"},
            isNumber : BOOLEAN,
            confidence : {-1, 0, 7, 10, 11},
            issues : BOOLEAN] :
        ~r.isNumber => r.confidence = 0}

AnalysisResponses ==
    AnalysisObjects
    \cup {[kind |-> k] : k \in {"empty", "notjson", "primitive"}}

\* the fallback analysis of the catch block (domainConfidence 0.5)
FallbackAnalysis ==
    [improvementPotential |-> "medium", domainConfidence |-> 5,
     detectedDomain |-> "general", expertiseLevel |-> "intermediate",
     domainSpecificIssues |-> "Unable to perform detailed domain analysis"]

\* the try block without the check of domainConfidence
ParseAnalysisKeepingConfidence(raw) ==
    IF raw.kind # "object"
    THEN [failed |-> TRUE, analysis |-> FallbackAnalysis]
    ELSE [failed |-> FALSE,
          analysis |->
            [improvementPotential |->
                IF raw.potential \in ImprovementPotentials THEN raw.potential ELSE "medium",
             domainConfidence |-> IF ~raw.isNumber THEN 7 ELSE raw.confidence,
             detectedDomain |-> "technical",
             expertiseLevel |->
                IF raw.level \in ExpertiseLevels THEN raw.level ELSE "intermediate",
             domainSpecificIssues |-> IF raw.issues THEN "listed" ELSE "none"]]

\* The try block of runDynamicAnalysis on a response text.  JSON.parse
\* throws on empty and non-JSON text; on a primitive the read of
\* improvementPotential (null) or the assignment to it (strict mode) throws;
\* every throw lands in the catch.  The three fields are sanitized
\* (domainConfidence to 0.7) and the arrays defaulted to [].
ParseAnalysis(raw) ==
    IF raw.kind # "object"
    THEN [failed |-> TRUE, analysis |-> FallbackAnalysis]
    ELSE [failed |-> FALSE,
          analysis |->
            [improvementPotential |->
                IF raw.potential \in ImprovementPotentials THEN raw.potential ELSE "medium",
             domainConfidence |->
                IF ~raw.isNumber \/ raw.confidence < 0 \/ raw.confidence > 10
                THEN 7 ELSE raw.confidence,
             detectedDomain |-> "technical",
             expertiseLevel |->
                IF raw.level \in ExpertiseLevels THEN raw.level ELSE "intermediate",
             domainSpecificIssues |-> IF raw.issues THEN "listed" ELSE "none"]]

\* the outcomes of callClaudeForAnalysis: it throws, or returns a text
AnalysisCallOutcomes(answers) ==
    {[ok |-> FALSE, response |-> NoResponse]}
    \cup {[ok |-> TRUE, response |-> r] : r \in answers}

\* runDynamicAnalysis that returns the fallback without storing it
RunDynamicAnalysisForgetful(entry, out) ==
    IF EntryIsFresh(entry, DynamicMaxAge)
    THEN [invoked |-> FALSE, failed |-> FALSE, threw |-> FALSE,
          returned |-> entry.response, entry |-> entry]
    ELSE LET parsed == IF out.ok THEN ParseAnalysis(out.response)
                       ELSE [failed |-> TRUE, analysis |-> FallbackAnalysis]
         IN  [invoked |-> TRUE, failed |-> parsed.failed, threw |-> FALSE,
              returned |-> parsed.analysis,
              entry |-> IF parsed.failed THEN NoEntry
                        ELSE [response |-> parsed.analysis, timestamp |-> now]]

\* runDynamicAnalysis(prompt) at time now, entry being what dynamicCache
\* holds for the key of the prompt and out the outcome of the oracle call if
\* one is made: a fresh entry is returned; otherwise the entry is dropped,
\* the oracle called, and the analysis or, from the catch block, the fallback
\* is stored and returned
RunDynamicAnalysis(entry, out) ==
    IF EntryIsFresh(entry, DynamicMaxAge)
    THEN [invoked |-> FALSE, failed |-> FALSE, threw |-> FALSE,
          returned |-> entry.response, entry |-> entry]
    ELSE LET parsed == IF out.ok THEN ParseAnalysis(out.response)
                       ELSE [failed |-> TRUE, analysis |-> FallbackAnalysis]
         IN  [invoked |-> TRUE, failed |-> parsed.failed, threw |-> FALSE,
              returned |-> parsed.analysis,
              entry |-> [response |-> parsed.analysis, timestamp |-> now]]

\* one call of runDynamicAnalysis on its own, the cache empty
RunDynamicAnalysisOn ==
    /\ run = "analysis"
    /\ pc = "analysis"
    /\ \E out \in AnalysisCallOutcomes(AnalysisResponses) :
         LET done == RunDynamicAnalysis(caches.dynamic["key"], out)
         IN  /\ applied' = [fn |-> "runDynamicAnalysis", outcome |-> out,
                            invoked |-> done.invoked, failed |-> done.failed,
                            threw |-> done.threw, returned |-> done.returned,
                            failedAt |-> IF done.failed THEN now ELSE -1]
             /\ caches' = [caches EXCEPT !.dynamic["key"] = done.entry]
    /\ pc' = "analysed"
    /\ UNCHANGED <<callers, tempFiles, clockVars, run, config, originalPrompt,
                   currentPrompt, claudeCalls, iterations, critique, result, refineCache,
                   enhancementCache, layerIdx, layerResults, context, oracleCalls,
                   critiqueCalls, improveCalls, improveFailed, oracleFailures, runs>>

\* what the oracle answers the analysis requests followed under the clock
MemoAnswers == {[kind |-> "notjson"],
                [kind |-> "object", potential |-> "high", level |-> "expert",
                 isNumber |-> TRUE, confidence |-> 7, issues |-> TRUE]}

\* the time of the latest failure of runDynamicAnalysis, -1 before any
LastFailure == IF applied = NoApplication THEN -1 ELSE applied.failedAt

\* one call of runDynamicAnalysis at time now, among the calls of the
\* gateway functions
RunDynamicAnalysisAt ==
    /\ run = "gateway"
    /\ lastCall.n < MaxGatewayCalls
    /\ \E out \in AnalysisCallOutcomes(MemoAnswers) :
         LET done == RunDynamicAnalysis(caches.dynamic["key"], out)
         IN  /\ applied' = [fn |-> "runDynamicAnalysis",
                            invoked |-> done.invoked, failed |-> done.failed,
                            threw |-> done.threw, returned |-> done.returned,
                            failedAt |-> IF done.failed THEN now ELSE LastFailure]
             /\ caches' = [caches EXCEPT !.dynamic["key"] = done.entry]
             /\ lastCall' = [n |-> lastCall.n + 1, gateway |-> "runDynamicAnalysis",
                             key |-> <<"dynamic">>, ok |-> TRUE,
                             invoked |-> done.invoked, response |-> NoResponse]
    /\ UNCHANGED <<callers, tempFiles, runVars, refineCache, enhancementCache,
                   oracleCalls, now, stamps, answered>>

----------------------------------------------------------------------------
(* getCritique on its own *)

\* the outcomes of the callClaude call of getCritique: the call throws, or it
\* returns a response text
CritiqueCallOutcomes ==
    {[ok |-> FALSE, response |-> NoResponse]}
    \cup {[ok |-> TRUE, response |-> r] : r \in CritiqueResponses(RawSubScores)}

\* one call of getCritique(prompt): lastCall keeps what callClaude did,
\* critique the report getCritique returned
GetCritiqueOn ==
    /\ run = "getCritique"
    /\ pc = "getCritique"
    /\ \E out \in CritiqueCallOutcomes :
         /\ lastCall' = [n |-> 1, gateway |-> "callClaude",
                         key |-> GenerateKey(originalPrompt, "critique"),
                         ok |-> out.ok, invoked |-> TRUE, response |-> out.response]
         /\ critique' = getCritique(out)
    /\ pc' = "parsed"
    /\ UNCHANGED <<callers, tempFiles, applied, caches, run, config, originalPrompt, currentPrompt, claudeCalls, iterations,
                   result, refineCache, enhancementCache, layerIdx, layerResults,
                   context, oracleCalls, critiqueCalls, improveCalls, improveFailed,
                   oracleFailures, runs, now, stamps, answered>>

----------------------------------------------------------------------------
(* The validation step of a layer on its own *)

\* validate and the update of the current prompt that follows it, for one
\* layer, one prompt before and one candidate
ValidateOn ==
    /\ run = "validate"
    /\ pc = "validate"
    /\ \E i \in 1..Len(Layers), before \in Texts, candidate \in Texts :
         applied' = [fn        |-> "validate",
                     layer     |-> Layers[i].name,
                     before    |-> before,
                     candidate |-> candidate,
                     passed    |-> Validate(Layers[i], before, candidate),
                     current   |-> NextPrompt(Layers[i], before, candidate)]
    /\ pc' = "validated"
    /\ UNCHANGED <<callers, tempFiles, caches, clockVars, run, config, originalPrompt, currentPrompt, claudeCalls,
                   iterations, critique, result, refineCache, enhancementCache,
                   layerIdx, layerResults, context, oracleCalls, critiqueCalls,
                   improveCalls, improveFailed, oracleFailures, runs>>

----------------------------------------------------------------------------
(* Two callClaude calls in flight at once *)

\* the two runs that execute concurrently in the process
CallerNames == {"A", "B"}

\* the prompt each of them asks a critique of
RequestOf == [A |-> 1, B |-> 2]

\* the cache key of the call of each
KeyOf == [c \in CallerNames |-> GenerateKey(RequestOf[c], "critique")]

\* no file of that name, and the empty input of the oracle
NoContent == 0

\* the answer of the oracle to the request text (NoContent: to empty input)
AnswerTo(request) == [kind |-> "answer", to |-> request]

NoCallers ==
    [c \in CallerNames |->
        [pc |-> "idle", tempFile |-> 0, sent |-> NoContent, response |-> NoResponse]]

\* /tmp holds no self-refine file
NoFiles == [t \in 0..MaxTime |-> NoContent]

\* a temp file named after the caller instead of the clock
TempFileOfCaller(c) == IF c = "A" THEN 0 ELSE 1

\* the name of the temp file of a call that starts now:
\* `/tmp/self-refine-${Date.now()}.txt`, identified by the timestamp
TempFileOf(c) == now

\* callClaude up to its first await: the cache has no entry for the key, the
\* name of the temp file is taken from the clock and Bun.write is started
BeginCall ==
    /\ run = "concurrent"
    /\ \E c \in CallerNames :
         /\ callers[c].pc = "idle"
         /\ refineCache[KeyOf[c]] = NoEntry
         /\ callers' = [callers EXCEPT ![c].pc = "write", ![c].tempFile = TempFileOf(c)]
    /\ UNCHANGED <<tempFiles, applied, caches, runVars, refineCache, enhancementCache,
                   oracleCalls, clockVars>>

\* Bun.write(tempFile, prompt) completes
WriteFile ==
    /\ run = "concurrent"
    /\ \E c \in CallerNames :
         /\ callers[c].pc = "write"
         /\ tempFiles' = [tempFiles EXCEPT ![callers[c].tempFile] = RequestOf[c]]
         /\ callers' = [callers EXCEPT ![c].pc = "pipe"]
    /\ UNCHANGED <<applied, caches, runVars, refineCache, enhancementCache,
                   oracleCalls, clockVars>>

\* $`cat ${tempFile} | claude -p`: the oracle is sent what the file holds.
\* When the file is gone cat fails, and the pipeline either rejects (the call
\* throws) or runs the oracle on empty input, as the shell has it.
PipeToOracle ==
    /\ run = "concurrent"
    /\ \E c \in CallerNames :
         /\ callers[c].pc = "pipe"
         /\ LET content == tempFiles[callers[c].tempFile]
            IN  \/ /\ callers' = [callers EXCEPT ![c].pc = "rm",
                                                 ![c].sent = content,
                                                 ![c].response = AnswerTo(content)]
                   /\ oracleCalls' = oracleCalls + 1
                \/ /\ content = NoContent
                   /\ callers' = [callers EXCEPT ![c].pc = "threw"]
                   /\ oracleCalls' = oracleCalls
    /\ UNCHANGED <<tempFiles, applied, caches, runVars, refineCache, enhancementCache,
                   clockVars>>

\* $`rm -f ${tempFile}`
RemoveFile ==
    /\ run = "concurrent"
    /\ \E c \in CallerNames :
         /\ callers[c].pc = "rm"
         /\ tempFiles' = [tempFiles EXCEPT ![callers[c].tempFile] = NoContent]
         /\ callers' = [callers EXCEPT ![c].pc = "store"]
    /\ UNCHANGED <<applied, caches, runVars, refineCache, enhancementCache,
                   oracleCalls, clockVars>>

\* refineCache.set(cacheKey, trimmed) and the return
StoreResponse ==
    /\ run = "concurrent"
    /\ \E c \in CallerNames :
         /\ callers[c].pc = "store"
         /\ refineCache' = CacheSet(refineCache, KeyOf[c], callers[c].response)
         /\ callers' = [callers EXCEPT ![c].pc = "returned"]
    /\ UNCHANGED <<tempFiles, applied, caches, runVars, enhancementCache,
                   oracleCalls, clockVars>>

\* a millisecond passes
ClockTick ==
    /\ run = "concurrent"
    /\ now < MaxTime
    /\ now' = now + 1
    /\ UNCHANGED <<callers, tempFiles, applied, caches, runVars, refineCache,
                   enhancementCache, oracleCalls, stamps, lastCall, answered>>

----------------------------------------------------------------------------
(* The specification *)

Init ==
    /\ run \in {"refine", "enhance"}
    /\ config \in (IF run = "refine" THEN Configs ELSE EnhanceConfigs)
    /\ originalPrompt \in InputTexts
    /\ currentPrompt = originalPrompt
    /\ claudeCalls = 0
    /\ iterations = <<>>
    /\ critique = NoCritique
    /\ pc = (IF run = "refine" THEN "loop" ELSE "layers")
    /\ result = NoResult
    /\ refineCache = [k \in RefineKeys |-> NoEntry]
    /\ enhancementCache = [k \in EnhancementKeys |-> NoEntry]
    /\ layerIdx = 1
    /\ layerResults = <<>>
    /\ context \in (IF run = "refine" THEN {NewContext(NoAnalysis)} ELSE Contexts)
    /\ oracleCalls = 0
    /\ critiqueCalls = 0
    /\ improveCalls = 0
    /\ improveFailed = FALSE
    /\ oracleFailures = 0
    /\ runs = 1
    /\ now = 0
    /\ stamps = NoStamps
    /\ lastCall = NoCall
    /\ answered = NoAnswers
    /\ applied = NoApplication
    /\ caches = NoCaches
    /\ callers = NoCallers
    /\ tempFiles = NoFiles

\* The process calls the component again: a new invocation of the same
\* function with the same configuration starts after the previous one has
\* returned.  The locals of the run start afresh; refineCache and
\* enhancementCache are module-level objects created once when the module is
\* loaded and are left as the previous run left them.
NewRun ==
    /\ pc = "returned"
    /\ runs < MaxRuns
    /\ runs' = runs + 1
    /\ originalPrompt' \in InputTexts
    /\ currentPrompt' = originalPrompt'
    /\ claudeCalls' = 0
    /\ iterations' = <<>>
    /\ critique' = NoCritique
    /\ pc' = (IF run = "refine" THEN "loop" ELSE "layers")
    /\ result' = NoResult
    /\ layerIdx' = 1
    /\ layerResults' = <<>>
    /\ context' = [context EXCEPT !.previousLayers = <<>>]
    /\ oracleCalls' = 0
    /\ critiqueCalls' = 0
    /\ improveCalls' = 0
    /\ improveFailed' = FALSE
    /\ oracleFailures' = 0
    /\ UNCHANGED <<callers, tempFiles, applied, caches, clockVars, run, config, refineCache, enhancementCache>>

Next ==
    \/ Critique
    \/ ImproveThrows
    \/ Improve
    \/ LoopExit
    \/ BudgetSkip
    \/ ConditionSkip
    \/ ApplyLayer
    \/ EnhanceReturn

Spec == Init /\ [][Next]_vars

\* The state of a process in which the function name is exercised on its
\* own: both caches empty as when the modules are loaded, no run under way
StandaloneInit(name) ==
    /\ run = name
    /\ config = FastConfig
    /\ originalPrompt = 1
    /\ currentPrompt = 1
    /\ claudeCalls = 0
    /\ iterations = <<>>
    /\ critique = NoCritique
    /\ pc = name
    /\ result = NoResult
    /\ refineCache = [k \in RefineKeys |-> NoEntry]
    /\ enhancementCache = [k \in EnhancementKeys |-> NoEntry]
    /\ layerIdx = 1
    /\ layerResults = <<>>
    /\ context = NewContext(NoAnalysis)
    /\ oracleCalls = 0
    /\ critiqueCalls = 0
    /\ improveCalls = 0
    /\ improveFailed = FALSE
    /\ oracleFailures = 0
    /\ runs = 1
    /\ now = 0
    /\ stamps = NoStamps
    /\ lastCall = NoCall
    /\ answered = NoAnswers
    /\ applied = NoApplication
    /\ caches = NoCaches
    /\ callers = NoCallers
    /\ tempFiles = NoFiles

\* a process in which the gateway functions are called at arbitrary times
GatewayInit == StandaloneInit("gateway")

GatewayNext ==
    \/ CallClaudeAt
    \/ CallClaudeForLayerAt
    \/ Tick

GatewaySpec == GatewayInit /\ [][GatewayNext]_vars

\* getCritique alone, on every outcome of its callClaude call
CritiqueInit == StandaloneInit("getCritique")

CritiqueNext == GetCritiqueOn

CritiqueSpec == CritiqueInit /\ [][CritiqueNext]_vars

\* the validation step alone, on every layer and every pair of texts
ValidateInit == StandaloneInit("validate")

ValidateNext == ValidateOn

ValidateSpec == ValidateInit /\ [][ValidateNext]_vars

-----------------------------------------------------------------------------
(* The configuration functions on their own *)

\* DEFAULT_CONFIG.modes, targetQuality in tenths
ModeConfigs ==
    [fast |->
       [mode |-> "fast", targetQuality |-> 70, maxIterations |-> 1,
        enableSelfRefine |-> FALSE, showProgress |-> FALSE, maxClaudeCalls |-> 2,
        features |-> [staticAnalysis |-> TRUE, dynamicAnalysis |-> FALSE,
                      patternDetection |-> TRUE, frameworkRecommendation |-> TRUE,
                      selfCritique |-> FALSE]],
     balanced |->
       [mode |-> "balanced", targetQuality |-> 85, maxIterations |-> 3,
        enableSelfRefine |-> TRUE, showProgress |-> TRUE, maxClaudeCalls |-> 5,
        features |-> [staticAnalysis |-> TRUE, dynamicAnalysis |-> TRUE,
                      patternDetection |-> TRUE, frameworkRecommendation |-> TRUE,
                      selfCritique |-> TRUE, variantGeneration |-> FALSE]],
     thorough |->
       [mode |-> "thorough", targetQuality |-> 90, maxIterations |-> 5,
        enableSelfRefine |-> TRUE, showProgress |-> TRUE, maxClaudeCalls |-> 10,
        features |-> [staticAnalysis |-> TRUE, dynamicAnalysis |-> TRUE,
                      patternDetection |-> TRUE, frameworkRecommendation |-> TRUE,
                      selfCritique |-> TRUE, variantGeneration |-> TRUE,
                      domainOptimization |-> TRUE, edgeCaseAnalysis |-> TRUE,
                      multiStageRefinement |-> TRUE]],
     research |->
       [mode |-> "research", targetQuality |-> 95, maxIterations |-> 7,
        enableSelfRefine |-> TRUE, showProgress |-> TRUE, maxClaudeCalls |-> 15,
        features |-> [staticAnalysis |-> TRUE, dynamicAnalysis |-> TRUE,
                      multiStageRefinement |-> TRUE,
                      comprehensivePatternAnalysis |-> TRUE,
                      crossDomainOptimization |-> TRUE, academicFrameworks |-> TRUE,
                      citationGeneration |-> TRUE, patternDetection |-> TRUE,
                      frameworkRecommendation |-> TRUE, selfCritique |-> TRUE]]]

\* type ImprovementMode
ImprovementModes == {"fast", "balanced", "thorough", "research"}

\* an object without keys
EmptyObject == << >>

\* the object with the keys D of o (a Partial of it)
Restrict(o, D) == [k \in D |-> o[k]]

\* {...base, ...over}: the keys of both, a key of over taking over's value
Spread(base, over) ==
    [k \in DOMAIN base \cup DOMAIN over |->
        IF k \in DOMAIN over THEN over[k] ELSE base[k]]

\* getConfig with the features of the override replacing those of the mode
getConfigReplacingFeatures(mode, overrides) ==
    Spread(ModeConfigs[mode], overrides)

getConfig(mode, overrides) ==
    LET modeConfig == ModeConfigs[mode]
        overFeatures == IF "features" \in DOMAIN overrides
                        THEN overrides.features ELSE EmptyObject
    IN  [Spread(modeConfig, overrides) EXCEPT
            !.features = Spread(modeConfig.features, overFeatures)]

\* validateConfig whose test of maxClaudeCalls admits 0
validateConfigFromZero(cfg) ==
    LET quality == IF "targetQuality" \in DOMAIN cfg
                      /\ (cfg.targetQuality < 0 \/ cfg.targetQuality > 100)
                   THEN <<"targetQuality must be between 0 and 10">> ELSE << >>
        iters   == IF "maxIterations" \in DOMAIN cfg
                      /\ (cfg.maxIterations < 1 \/ cfg.maxIterations > 10)
                   THEN <<"maxIterations must be between 1 and 10">> ELSE << >>
        calls   == IF "maxClaudeCalls" \in DOMAIN cfg
                      /\ (cfg.maxClaudeCalls < 0 \/ cfg.maxClaudeCalls > 50)
                   THEN <<"maxClaudeCalls must be between 1 and 50">> ELSE << >>
    IN  quality \o iters \o calls

\* the errors validateConfig returns, in the order it pushes them
\* (targetQuality in tenths: 10 is 100)
validateConfig(cfg) ==
    LET quality == IF "targetQuality" \in DOMAIN cfg
                      /\ (cfg.targetQuality < 0 \/ cfg.targetQuality > 100)
                   THEN <<"targetQuality must be between 0 and 10">> ELSE << >>
        iters   == IF "maxIterations" \in DOMAIN cfg
                      /\ (cfg.maxIterations < 1 \/ cfg.maxIterations > 10)
                   THEN <<"maxIterations must be between 1 and 10">> ELSE << >>
        calls   == IF "maxClaudeCalls" \in DOMAIN cfg
                      /\ (cfg.maxClaudeCalls < 1 \/ cfg.maxClaudeCalls > 50)
                   THEN <<"maxClaudeCalls must be between 1 and 50">> ELSE << >>
    IN  quality \o iters \o calls

\* overrides of the feature toggles: any of three keys, each with a value
\* (one key every mode has, one only some have, one only research has)
FeatureOverrides ==
    {Restrict(f, D) :
        f \in [dynamicAnalysis : BOOLEAN, variantGeneration : BOOLEAN,
               citationGeneration : BOOLEAN],
        D \in SUBSET {"dynamicAnalysis", "variantGeneration", "citationGeneration"}}

\* overrides objects (Partial<ImprovementConfig>): any of four fields
ConfigOverrides ==
    {Restrict(o, D) :
        o \in [targetQuality : {60}, maxClaudeCalls : {3}, showProgress : {FALSE},
               features : FeatureOverrides],
        D \in SUBSET {"targetQuality", "maxClaudeCalls", "showProgress", "features"}}

\* arguments of validateConfig: any of the three fields it reads, with
\* values on both sides of each bound
ValidateArgs ==
    {Restrict(c, D) :
        c \in [targetQuality : {-1, 0, 85, 100, 101},
               maxIterations : {0, 1, 10, 11},
               maxClaudeCalls : {0, 1, 50, 51}],
        D \in SUBSET {"targetQuality", "maxIterations", "maxClaudeCalls"}}

\* one call of getConfig
GetConfigOn ==
    /\ run = "config"
    /\ pc = "config"
    /\ \E mode \in ImprovementModes, overrides \in ConfigOverrides :
         applied' = [fn        |-> "getConfig",
                     mode      |-> mode,
                     overrides |-> overrides,
                     returned  |-> getConfig(mode, overrides)]
    /\ pc' = "configured"
    /\ UNCHANGED <<callers, tempFiles, caches, clockVars, run, config, originalPrompt, currentPrompt, claudeCalls,
                   iterations, critique, result, refineCache, enhancementCache,
                   layerIdx, layerResults, context, oracleCalls, critiqueCalls,
                   improveCalls, improveFailed, oracleFailures, runs>>

\* one call of validateConfig: it reads its argument, pushes onto a list of
\* its own and returns that list
ValidateConfigOn ==
    /\ run = "config"
    /\ pc = "config"
    /\ \E cfg \in ValidateArgs :
         applied' = [fn       |-> "validateConfig",
                     passed   |-> cfg,
                     argument |-> cfg,
                     threw    |-> FALSE,
                     returned |-> validateConfig(cfg)]
    /\ pc' = "configured"
    /\ UNCHANGED <<callers, tempFiles, caches, clockVars, run, config, originalPrompt, currentPrompt, claudeCalls,
                   iterations, critique, result, refineCache, enhancementCache,
                   layerIdx, layerResults, context, oracleCalls, critiqueCalls,
                   improveCalls, improveFailed, oracleFailures, runs>>

\* the budget of thorough given to the iterations of balanced
ModeRefineConfigsWithSpareCalls ==
    {[maxClaudeCalls |-> 10, maxIterations |-> 3, targetQuality |-> 85]}

\* the fields selfRefinePrompt reads of the configuration of each mode
ModeRefineConfigs ==
    {Restrict(ModeConfigs[m], {"maxClaudeCalls", "maxIterations", "targetQuality"}) :
        m \in ImprovementModes}

\* score values of the critiques of the runs under the mode defaults, in
\* tenths: seven values that each gain on the one before and stay below every
\* target, and one above every target
ModeScores == {50, 56, 62, 68, 74, 80, 84, 96}

\* the critique responses of the runs under the mode defaults
ModeCritiques ==
    [kind : {"object"}, score : ModeScores, cont : {TRUE}, lists : {TRUE},
     clarity : RunSubScores, effectiveness : RunSubScores, completeness : RunSubScores]

\* the texts the oracle answers an improve request with in those runs
ModeImproveTexts == {4}

ModeCritique == CritiqueOn(ModeCritiques)

ModeImprove == ImproveOn(ModeImproveTexts)

\* a selfRefinePrompt run under the default budgets of one of the four modes
ModeInit ==
    /\ run = "refine"
    /\ config \in ModeRefineConfigs
    /\ originalPrompt = 2
    /\ currentPrompt = originalPrompt
    /\ claudeCalls = 0
    /\ iterations = <<>>
    /\ critique = NoCritique
    /\ pc = "loop"
    /\ result = NoResult
    /\ refineCache = [k \in RefineKeys |-> NoEntry]
    /\ enhancementCache = [k \in EnhancementKeys |-> NoEntry]
    /\ layerIdx = 1
    /\ layerResults = <<>>
    /\ context = NewContext(NoAnalysis)
    /\ oracleCalls = 0
    /\ critiqueCalls = 0
    /\ improveCalls = 0
    /\ improveFailed = FALSE
    /\ oracleFailures = 0
    /\ runs = 1
    /\ now = 0
    /\ stamps = NoStamps
    /\ lastCall = NoCall
    /\ answered = NoAnswers
    /\ applied = NoApplication
    /\ caches = NoCaches
    /\ callers = NoCallers
    /\ tempFiles = NoFiles

\* the return after the while loop is left out: with maxClaudeCalls >= 2 the
\* loop is left by the return inside it only
ModeNext ==
    \/ ModeCritique
    \/ ModeImprove

ModeSpec == ModeInit /\ [][ModeNext]_vars

\* a process in which two runs each make one callClaude call, at any times
ConcurrentInit == StandaloneInit("concurrent")

ConcurrentNext ==
    \/ BeginCall
    \/ WriteFile
    \/ PipeToOracle
    \/ RemoveFile
    \/ StoreResponse
    \/ ClockTick

ConcurrentSpec == ConcurrentInit /\ [][ConcurrentNext]_vars

\* the enhance runs, and the validation step of every layer on every pair
\* of texts
EnhanceInit == (Init /\ run = "enhance") \/ ValidateInit

EnhanceNext ==
    \/ BudgetSkip
    \/ ConditionSkip
    \/ ApplyLayer
    \/ EnhanceReturn
    \/ ValidateOn

EnhanceSpec == EnhanceInit /\ [][EnhanceNext]_vars

\* a process that calls runDynamicAnalysis once
AnalysisInit == StandaloneInit("analysis")

AnalysisNext == RunDynamicAnalysisOn

AnalysisSpec == AnalysisInit /\ [][AnalysisNext]_vars

\* a process in which runDynamicAnalysis and the gateway functions are
\* called at arbitrary times
MemoInit == StandaloneInit("gateway")

MemoNext ==
    \/ RunDynamicAnalysisAt
    \/ CallClaudeAt
    \/ CallClaudeForLayerAt
    \/ Tick

MemoSpec == MemoInit /\ [][MemoNext]_vars

\* a process in which the cache objects are read and written at arbitrary
\* times
CacheInit == StandaloneInit("cache")

CacheNext ==
    \/ CacheGetAt
    \/ CacheSetAt
    \/ CacheTick

CacheSpec == CacheInit /\ [][CacheNext]_vars

ConfigInit == StandaloneInit("config")

ConfigNext == GetConfigOn \/ ValidateConfigOn

ConfigSpec == ConfigInit /\ [][ConfigNext]_vars

\* the configurations of the processes that invoke the component repeatedly:
\* no budget at all, or a budget of three calls
ProcessConfigs ==
    {c \in Configs : c.maxClaudeCalls \in {0, 3} /\ c.maxIterations = 1 /\ c.targetQuality = 85}

ProcessInit == Init /\ config \in ProcessConfigs

\* a process that invokes the component up to MaxRuns times
ProcessNext == Next \/ NewRun

ProcessSpec == ProcessInit /\ [][ProcessNext]_vars

----------------------------------------------------------------------------
(* Properties of the call budget *)

\* C1: in every state of a selfRefinePrompt run configured with
\* maxClaudeCalls >= 1, the calls made so far (critique calls plus improve
\* calls, which is what claudeCalls counts) do not exceed maxClaudeCalls; the
\* oracle process has been run at most once per call (not at all on a cache
\* hit).
C1_RefineCallsWithinBudget ==
    (run = "refine" /\ config.maxClaudeCalls >= 1) =>
        /\ critiqueCalls + improveCalls = claudeCalls
        /\ oracleCalls <= claudeCalls
        /\ claudeCalls <= config.maxClaudeCalls

\* C1 witness: a run that has critiqued and improved and has used its whole
\* budget
C1_Witness ==
    /\ run = "refine"
    /\ config.maxClaudeCalls >= 3
    /\ improveCalls >= 1
    /\ claudeCalls = config.maxClaudeCalls

\* C2: in every state of an enhance run the oracle invocations issued by the
\* layers, failed ones included, do not exceed maxClaudeCalls.
C2_EnhanceOracleCallsWithinBudget ==
    run = "enhance" => oracleCalls <= config.maxClaudeCalls

----------------------------------------------------------------------------
(* Properties of completion *)

\* C3: neither selfRefinePrompt nor enhance ever ends by throwing to its
\* caller, whatever the oracle answers.
C3_NeverThrows == pc # "threw"

\* C4: a run that can take no further step has returned a result (every run
\* takes finitely many steps, so under fairness it ends in such a state).
C4_TerminatesWithResult == (~ENABLED Next) => pc = "returned"

----------------------------------------------------------------------------
(* Properties of the stop rules of selfRefinePrompt *)

\* the score of the i-th recorded iteration
ScoreAt(i) == iterations[i].critique.score

\* the calls a run has made when it decides after its n-th critique
CallsAtDecision(n) == 2 * n - 1

\* the budget leaves room for an improve call and a critique after the n-th
\* critique
BudgetLeftAt(n) == ~(CallsAtDecision(n) >= config.maxClaudeCalls - 1)

\* the scores rise strictly up to iteration k and reach the target there first
ReachesTargetAt(k) ==
    /\ k \in 1..Len(iterations)
    /\ \A i \in 1..(k - 1) : ScoreAt(i) < ScoreAt(i + 1)
    /\ \A i \in 1..(k - 1) : ScoreAt(i) < config.targetQuality
    /\ ScoreAt(k) >= config.targetQuality

\* C5: when strictly rising scores first reach the target at iteration k,
\* with k within maxIterations and budget left, the run has stopped at k with
\* quality_achieved: k iterations recorded, no improve call after the k-th
\* critique.
C5_StopsWhenTargetReached ==
    \A k \in 1..MaxIter :
        ( /\ run = "refine"
          /\ ReachesTargetAt(k)
          /\ k <= config.maxIterations
          /\ BudgetLeftAt(k) )
        => /\ pc = "returned"
           /\ result.convergenceReason = "quality_achieved"
           /\ Len(iterations) = k
           /\ improveCalls = k - 1

\* C6: the recorded iterations never exceed maxIterations, and a run whose
\* iteration count has reached maxIterations, without the target being met
\* and with budget left, has stopped there with max_iterations.
C6_IterationsWithinMax ==
    run = "refine" =>
        /\ Len(iterations) <= config.maxIterations
        /\ ( /\ Len(iterations) = config.maxIterations
             /\ ScoreAt(Len(iterations)) < config.targetQuality
             /\ BudgetLeftAt(Len(iterations)) )
           => /\ pc = "returned"
              /\ result.convergenceReason = "max_iterations"

\* the stop conditions that hold at the deciding step of a run that returned
\* with the iterations its and calls calls made, in the order of the rules
StopConditions(its, cfg, calls) ==
    LET n == Len(its)
    IN  <<its[n].critique.score >= cfg.targetQuality,
          n >= cfg.maxIterations,
          n >= 2 /\ its[n].critique.score - its[n - 1].critique.score < MinGain,
          ~its[n].critique.shouldContinue,
          calls >= cfg.maxClaudeCalls - 1>>

ReasonNames ==
    <<"quality_achieved", "max_iterations", "diminishing_returns",
      "claude_recommendation", "claude_limit">>

\* C7: when more than one stop condition holds at the deciding step, the
\* reason returned is the first that holds in the order quality_achieved,
\* max_iterations, diminishing_returns, claude_recommendation, claude_limit.
C7_FirstMatchingReasonWins ==
    ( /\ run = "refine"
      /\ pc = "returned"
      /\ Len(iterations) >= 1 )
    => LET conds == StopConditions(iterations, config, claudeCalls)
           hold  == {i \in 1..5 : conds[i]}
       IN  Cardinality(hold) > 1 =>
             \E i \in hold :
                /\ \A j \in hold : i <= j
                /\ result.convergenceReason = ReasonNames[i]

\* C8: with scores 5.0 and 5.1 in iterations 1 and 2 (both critiques advising
\* to continue), the target not reached, maxIterations > 2 and budget left,
\* the run has stopped after iteration 2 with two iterations recorded and
\* diminishing_returns.
C8_DiminishingReturnsStopsAtTwo ==
    ( /\ run = "refine"
      /\ Len(iterations) >= 2
      /\ ScoreAt(1) = 50
      /\ ScoreAt(2) = 51
      /\ iterations[1].critique.shouldContinue
      /\ iterations[2].critique.shouldContinue
      /\ config.targetQuality > 51
      /\ config.maxIterations > 2
      /\ BudgetLeftAt(2) )
    => /\ pc = "returned"
       /\ Len(iterations) = 2
       /\ result.convergenceReason = "diminishing_returns"

\* C9: when the latest critique advises against continuing and neither the
\* target, the iteration limit, diminishing returns nor the budget stops the
\* run, the run has stopped in that iteration with claude_recommendation and
\* has made no improve call for that critique.
C9_StopsOnRecommendation ==
    LET n == Len(iterations)
    IN  ( /\ run = "refine"
          /\ n >= 1
          /\ ~iterations[n].critique.shouldContinue
          /\ ScoreAt(n) < config.targetQuality
          /\ n < config.maxIterations
          /\ ~(n >= 2 /\ ScoreAt(n) - ScoreAt(n - 1) < MinGain)
          /\ BudgetLeftAt(n) )
        => /\ pc = "returned"
           /\ result.convergenceReason = "claude_recommendation"
           /\ improveCalls = n - 1

\* C10: the step in which an improve oracle call fails leaves the current
\* prompt as it is, and once an improve call has failed the run makes no
\* further critique or improve call.
C10_ImproveFailureStops ==
    [][ /\ (~improveFailed /\ improveFailed') => currentPrompt' = currentPrompt
        /\ improveFailed => (critiqueCalls' = critiqueCalls /\ improveCalls' = improveCalls)
      ]_vars

----------------------------------------------------------------------------
(* Properties of the default modes *)

\* C11: a selfRefinePrompt run configured as mode fast (maxIterations = 1,
\* maxClaudeCalls = 2) makes at most one critique call and at most one
\* improve call whatever the oracle does, never throws, can always step until
\* it has returned, and returns totalClaudeCalls <= 2.
C11_FastModeAtMostTwoCalls ==
    (run = "refine" /\ config = FastConfig) =>
        /\ critiqueCalls <= 1
        /\ improveCalls <= 1
        /\ claudeCalls <= 2
        /\ pc # "threw"
        /\ (~ENABLED Next) => pc = "returned"
        /\ pc = "returned" => result.totalClaudeCalls <= 2

\* C11 witness: a fast run that has returned after its critique call
C11_Witness ==
    /\ run = "refine"
    /\ config = FastConfig
    /\ pc = "returned"
    /\ critiqueCalls = 1
    /\ result.totalClaudeCalls = 1

----------------------------------------------------------------------------
(* Properties of the call counter and the trace *)

\* the layers of a trace whose apply was attempted: the ones not skipped and
\* the ones recorded as layer_failed
ApplyAttempts(results) ==
    Cardinality({i \in 1..Len(results) :
                    ~results[i].skipped \/ results[i].skipReason = "layer_failed"})

\* C12: in both components the call counter equals the number of
\* oracle-consuming steps attempted so far (critique and improve attempts of
\* the loop, apply attempts of the pipeline), failed ones included, and the
\* returned count is that number.
C12_CounterEqualsAttemptedSteps ==
    /\ run = "refine" => claudeCalls = critiqueCalls + improveCalls
    /\ run = "enhance" => claudeCalls = ApplyAttempts(layerResults)
    /\ (run = "refine" /\ pc = "returned") =>
           result.totalClaudeCalls = critiqueCalls + improveCalls
    /\ (run = "enhance" /\ pc = "returned") =>
           result.claudeCalls = ApplyAttempts(layerResults)

\* C13: in a selfRefinePrompt run every getCritique attempt has its record:
\* the trace is as long as the number of attempts, its records carry the
\* indices 1..n in order, and a run that returned reports that trace with
\* totalIterations equal to its length.
C13_TraceMatchesCritiqueAttempts ==
    run = "refine" =>
        /\ Len(iterations) = critiqueCalls
        /\ \A i \in 1..Len(iterations) : iterations[i].iteration = i
        /\ pc = "returned" =>
              /\ result.iterations = iterations
              /\ Len(result.iterations) = critiqueCalls
              /\ result.totalIterations = Len(result.iterations)

\* C13 witness: a returned run of two or more iterations, one of them
\* answered by the fallback critique
C13_Witness ==
    /\ run = "refine"
    /\ pc = "returned"
    /\ result.totalIterations >= 2
    /\ \E i \in 1..Len(result.iterations) :
          result.iterations[i].critique = FallbackCritique

\* the names of the five layers in pipeline order
LayerOrder ==
    <<"Structure & Clarity", "Context & Background", "Examples & Patterns",
      "Constraints & Requirements", "Success Criteria & Validation">>

\* C14: an enhance run records one result per layer it has passed, in
\* pipeline order, whatever happened to the layer; it can always step until
\* it has returned, and the layerResults it returns are exactly five, named
\* Structure & Clarity, Context & Background, Examples & Patterns,
\* Constraints & Requirements, Success Criteria & Validation in this order.
C14_FiveLayerResultsInOrder ==
    run = "enhance" =>
        /\ Len(layerResults) <= 5
        /\ \A i \in 1..Len(layerResults) : layerResults[i].layerName = LayerOrder[i]
        /\ (~ENABLED Next) => pc = "returned"
        /\ pc = "returned" =>
              /\ Len(result.layerResults) = 5
              /\ \A i \in 1..5 : result.layerResults[i].layerName = LayerOrder[i]
              /\ result.totalLayers = 5

\* C14 witness: a returned enhance run whose trace holds a skip-condition
\* skip, a failed oracle call, a failed validation and a budget skip
C14_Witness ==
    /\ run = "enhance"
    /\ pc = "returned"
    /\ \E i, j, k, l \in 1..Len(result.layerResults) :
          /\ result.layerResults[i].skipReason = "prompt_too_short"
          /\ result.layerResults[j].skipReason = "layer_failed"
          /\ ~result.layerResults[k].skipped /\ ~result.layerResults[k].validationPassed
          /\ result.layerResults[l].skipReason = "claude_call_limit"

----------------------------------------------------------------------------
(* Properties of a run whose oracle is unreachable *)

\* the oracle process has been run in this run and every time it failed
EveryOracleCallFailed == oracleCalls >= 1 /\ oracleFailures = oracleCalls

\* C15: a run in which every oracle call failed returns the original input
\* as finalPrompt.
C15_UnreachableOracleReturnsInput ==
    (pc = "returned" /\ EveryOracleCallFailed) => result.finalPrompt = originalPrompt

\* C16: a run in which every oracle call failed returns a trace with nothing
\* applied: appliedLayers = 0 from enhance; totalIterations = 0 and an empty
\* iterations list from selfRefinePrompt.
C16_UnreachableOracleEmptyTrace ==
    (pc = "returned" /\ EveryOracleCallFailed) =>
        /\ run = "enhance" => result.appliedLayers = 0
        /\ run = "refine" => (result.totalIterations = 0 /\ result.iterations = <<>>)

----------------------------------------------------------------------------
(* Properties of the response caches *)

\* an invocation has been entered and has not made its first step
RunStarting ==
    /\ pc \in {"loop", "layers"}
    /\ claudeCalls = 0
    /\ Len(iterations) = 0
    /\ Len(layerResults) = 0

\* C18: when an invocation of selfRefinePrompt or enhance starts, both
\* response caches are empty: no entry written by an earlier invocation of
\* the process is there to be observed.
C18_CacheEmptyAtRunStart ==
    RunStarting =>
        /\ \A k \in RefineKeys : refineCache[k] = NoEntry
        /\ \A k \in EnhancementKeys : enhancementCache[k] = NoEntry

\* C17: a gateway call with key K made less than the cache's max-age after
\* the oracle answered a call with key K with response r returns r and does
\* not run the oracle, whatever r is (callClaude with the max-age of
\* RefineCache, callClaudeForLayer with the max-age of EnhancementCache).
C17_CacheIdempotence ==
    [][ (lastCall'.n = lastCall.n + 1) =>
          /\ lastCall'.gateway = "callClaude" =>
                LET a == answered.refine[lastCall'.key]
                IN  (a # NoAnswer /\ now - a.at < RefineMaxAge) =>
                       (~lastCall'.invoked /\ lastCall'.ok /\ lastCall'.response = a.response)
          /\ lastCall'.gateway = "callClaudeForLayer" =>
                LET a == answered.enhance[lastCall'.key]
                IN  (a # NoAnswer /\ now - a.at < EnhancementMaxAge) =>
                       (~lastCall'.invoked /\ lastCall'.ok /\ lastCall'.response = a.response)
      ]_vars

----------------------------------------------------------------------------
(* Properties of getCritique *)

\* the range of a score, in tenths
InScoreRange(x) == x >= 0 /\ x <= 100

\* C19: every report getCritique returns, whatever the oracle call did, has
\* its score and its sub-scores clarity, effectiveness and completeness
\* within [0,10].
C19_CritiqueScoresInRange ==
    pc = "parsed" =>
        /\ InScoreRange(critique.score)
        /\ InScoreRange(critique.clarity)
        /\ InScoreRange(critique.effectiveness)
        /\ InScoreRange(critique.completeness)

\* the fixed report of the catch block: score 6, sub-scores 6, no advice to
\* continue
IsFallbackReport(c) ==
    /\ c.score = 60
    /\ c.clarity = 60 /\ c.effectiveness = 60 /\ c.completeness = 60
    /\ ~c.shouldContinue

\* C20: in the step of a run in which getCritique is called and its oracle
\* call fails, or the response (the one the cache holds under the critique
\* key afterwards) is empty or not JSON, nothing is thrown: the iteration is
\* recorded with the fixed fallback report (score 6, sub-scores 6,
\* shouldContinue false) and the loop has gone on to its stop decision,
\* returning a result that ends with that record or handing over to the
\* improve step.
C20_FallbackCritiqueRecorded ==
    [][ LET resp == refineCache'[GenerateKey(currentPrompt, "critique")]
            n    == Len(iterations')
        IN  ( /\ run = "refine"
              /\ critiqueCalls' = critiqueCalls + 1
              /\ \/ oracleFailures' = oracleFailures + 1
                 \/ (resp # NoEntry /\ resp.kind \in {"empty", "notjson"}) )
            => /\ n = Len(iterations) + 1
               /\ IsFallbackReport(iterations'[n].critique)
               /\ iterations'[n].prompt = currentPrompt
               /\ pc' \in {"returned", "improve"}
               /\ pc' = "returned" => result'.iterations = iterations'
      ]_vars

\* C20 witness: the first critique call of a run failed, the fallback report
\* was recorded and the loop went on to the improve step
C20_Witness ==
    /\ run = "refine"
    /\ critiqueCalls = 1
    /\ improveCalls = 0
    /\ oracleFailures = 1
    /\ Len(iterations) = 1
    /\ IsFallbackReport(iterations[1].critique)
    /\ pc = "improve"

----------------------------------------------------------------------------
(* Properties of the layer pipeline *)

\* C21: in an enhance run on an input shorter than 50 characters, with a
\* budget of at least one call, the first layer result records Structure &
\* Clarity as skipped with skipReason prompt_too_short, and no oracle call
\* has been issued when that layer has been passed.
C21_ShortInputSkipsStructure ==
    ( /\ run = "enhance"
      /\ Catalogue[originalPrompt].len < 50
      /\ config.maxClaudeCalls >= 1
      /\ Len(layerResults) >= 1 )
    => /\ layerResults[1].layerName = "Structure & Clarity"
       /\ layerResults[1].skipped
       /\ layerResults[1].skipReason = "prompt_too_short"
       /\ layerIdx = 2 => oracleCalls = 0

\* C25: in the step in which enhance passes a layer, the layer is recorded
\* as skipped with skipReason claude_call_limit exactly when fewer than one
\* call remained on reaching it (maxClaudeCalls - claudeCalls < 1).
C25_BudgetSkipIffNoCallLeft ==
    [][ (run = "enhance" /\ layerIdx' = layerIdx + 1) =>
           ( layerResults'[layerIdx].skipReason = "claude_call_limit"
             <=> config.maxClaudeCalls - claudeCalls < 1 )
      ]_vars

----------------------------------------------------------------------------
(* Properties of the validation predicates *)

\* the markers of headers, bullets and numbering structureLayer.validate
\* looks for
StructureMarks == {"#", "- ", "* ", "digit-dot-space"}

\* the candidate has 1.05 times the length of the text before
GrowsByFivePercent(before, candidate) ==
    /\ Catalogue[before].len > 0
    /\ Catalogue[candidate].len * 100 = Catalogue[before].len * 105

\* C22: for a text before of length L > 0 and a candidate of length 1.05 * L
\* that adds no header, bullet or numbering marker, validate of the Structure
\* & Clarity layer is false and the current prompt stays the text before.
C22_StructureRejectsFivePercent ==
    ( /\ applied.fn = "validate"
      /\ applied.layer = "Structure & Clarity"
      /\ GrowsByFivePercent(applied.before, applied.candidate)
      /\ \A m \in StructureMarks :
            Has(applied.candidate, m) => Has(applied.before, m) )
    => /\ ~applied.passed
       /\ applied.current = applied.before

\* C22 witness: the Structure layer has validated a candidate of 1.05 times
\* the length that breaks the text into more lines and adds no marker
C22_Witness ==
    /\ applied.fn = "validate"
    /\ applied.layer = "Structure & Clarity"
    /\ GrowsByFivePercent(applied.before, applied.candidate)
    /\ Catalogue[applied.candidate].lines > Catalogue[applied.before].lines
    /\ \A m \in StructureMarks : ~Has(applied.candidate, m)
    /\ ~applied.passed

\* the text contains the example marker m: "example" in any case, the others
\* as written
HasExampleMark(text, m) ==
    IF m = "example" THEN HasLower(text, "example") ELSE Has(text, m)

ExampleMarks == {"example", "e.g.", "for instance", "code-fence", "such as"}

\* C28: when validate of the Examples & Patterns layer accepts a candidate
\* for a text the layer is not skipped on, the candidate contains an example
\* marker ("example", "e.g.", "for instance", a code fence, "such as") that
\* the text before does not contain.
C28_ExamplesNeedNewMarker ==
    ( /\ applied.fn = "validate"
      /\ applied.layer = "Examples & Patterns"
      /\ ~shouldSkipLayer(examplesLayer, applied.before).skip
      /\ applied.passed )
    => \E m \in ExampleMarks :
          HasExampleMark(applied.candidate, m) /\ ~HasExampleMark(applied.before, m)

\* C29: when validate of the Structure & Clarity layer accepts a candidate,
\* the candidate is longer than the text before and contains a header,
\* bullet or numbering marker.
C29_StructureNeedsMarker ==
    ( /\ applied.fn = "validate"
      /\ applied.layer = "Structure & Clarity"
      /\ applied.passed )
    => /\ Catalogue[applied.candidate].len > Catalogue[applied.before].len
       /\ \E m \in StructureMarks : Has(applied.candidate, m)

\* the fields of the object o other than features
TopLevel(o) == DOMAIN o \ {"features"}

\* the features of the overrides o, none when o has no features
SuppliedFeatures(o) == IF "features" \in DOMAIN o THEN o.features ELSE << >>

\* C23: getConfig(mode, overrides) returns a configuration whose top-level
\* fields other than features each equal the override's value when the
\* override supplies the field and the mode default otherwise, and whose
\* features each equal overrides.features[key] when supplied and the mode's
\* default for the key otherwise.
C23_GetConfigMergesKeyByKey ==
    applied.fn = "getConfig" =>
        LET r == applied.returned
            o == applied.overrides
            m == ModeConfigs[applied.mode]
            f == SuppliedFeatures(o)
        IN  /\ TopLevel(r) = TopLevel(m) \cup TopLevel(o)
            /\ \A k \in TopLevel(r) :
                  r[k] = IF k \in DOMAIN o THEN o[k] ELSE m[k]
            /\ DOMAIN r.features = DOMAIN m.features \cup DOMAIN f
            /\ \A k \in DOMAIN r.features :
                  r.features[k] = IF k \in DOMAIN f THEN f[k] ELSE m.features[k]

\* mode thorough with maxClaudeCalls and one feature overridden: the other
\* features keep the mode's values
C23_Witness ==
    /\ applied.fn = "getConfig"
    /\ applied.mode = "thorough"
    /\ DOMAIN applied.overrides = {"maxClaudeCalls", "features"}
    /\ DOMAIN applied.overrides.features = {"dynamicAnalysis"}
    /\ ~applied.overrides.features.dynamicAnalysis
    /\ applied.returned.maxClaudeCalls = 3
    /\ applied.returned.targetQuality = 90
    /\ ~applied.returned.features.dynamicAnalysis
    /\ applied.returned.features.variantGeneration

\* the fields validateConfig bounds, each with the range and the message
\* of the claim (targetQuality in tenths)
ConfigRanges ==
    [targetQuality  |-> [lo |-> 0, hi |-> 100,
                         message |-> "targetQuality must be between 0 and 10"],
     maxIterations  |-> [lo |-> 1, hi |-> 10,
                         message |-> "maxIterations must be between 1 and 10"],
     maxClaudeCalls |-> [lo |-> 1, hi |-> 50,
                         message |-> "maxClaudeCalls must be between 1 and 50"]]

\* the supplied fields of cfg whose value is out of range
OutOfRange(cfg) ==
    {k \in DOMAIN ConfigRanges :
        k \in DOMAIN cfg /\ (cfg[k] < ConfigRanges[k].lo \/ cfg[k] > ConfigRanges[k].hi)}

\* C24: validateConfig does not throw and leaves its argument as it was; the
\* list it returns holds exactly one message for each supplied field that is
\* out of range and nothing else, so it is empty exactly when every supplied
\* field is in range.
C24_ValidateConfigListsViolations ==
    applied.fn = "validateConfig" =>
        LET errors == applied.returned
            bad    == OutOfRange(applied.passed)
        IN  /\ ~applied.threw
            /\ applied.argument = applied.passed
            /\ Len(errors) = Cardinality(bad)
            /\ \A k \in bad :
                  Cardinality({i \in 1..Len(errors) : errors[i] = ConfigRanges[k].message}) = 1
            /\ (errors = << >>) <=> (bad = {})

\* two fields out of range and one in range: two messages
C24_Witness ==
    /\ applied.fn = "validateConfig"
    /\ DOMAIN applied.passed = {"targetQuality", "maxIterations", "maxClaudeCalls"}
    /\ applied.passed.targetQuality = 101
    /\ applied.passed.maxIterations = 10
    /\ applied.passed.maxClaudeCalls = 0
    /\ applied.returned = <<"targetQuality must be between 0 and 10",
                            "maxClaudeCalls must be between 1 and 50">>

\* the records of the layers whose candidate passed validation
Accepted(records) ==
    {i \in 1..Len(records) : ~records[i].skipped /\ records[i].validationPassed}

\* the candidate of the last layer whose validation passed, the input if
\* none passed
LastAccepted(records, input) ==
    IF Accepted(records) = {} THEN input
    ELSE records[CHOOSE i \in Accepted(records) :
                    \A j \in Accepted(records) : j <= i].enhancedPrompt

\* the step of enhance that records an applied layer treats its candidate
\* as the claim says
AppliedLayerStep ==
    ( run = "enhance" /\ layerIdx' = layerIdx + 1 /\ ~layerResults'[layerIdx].skipped )
    => LET r     == layerResults'[layerIdx]
           layer == Layers[layerIdx]
       IN  IF Validate(layer, currentPrompt, r.enhancedPrompt)
           THEN /\ currentPrompt' = r.enhancedPrompt
                /\ context'.previousLayers = Append(context.previousLayers, layer.name)
           ELSE /\ currentPrompt' = currentPrompt
                /\ context'.previousLayers = context.previousLayers
                /\ ~r.skipped
                /\ ~r.validationPassed

\* what enhance returns agrees with the records of its layers
EnhanceResultFromAccepted ==
    ( run = "enhance" /\ pc = "returned" )
    => /\ result.finalPrompt = LastAccepted(layerResults, originalPrompt)
       /\ result.appliedLayers = Len(context.previousLayers)

\* C26: for each layer whose apply call returns a candidate, the candidate
\* becomes the current prompt and the layer name is appended to
\* context.previousLayers if validate(before, candidate) is true, and
\* otherwise both are unchanged and the record has skipped = false and
\* validationPassed = false; finalPrompt is the candidate of the last layer
\* whose validation passed, or the input if none passed, and appliedLayers
\* equals the length of previousLayers.
C26_ValidatedCandidateBecomesCurrent ==
    [][AppliedLayerStep]_vars /\ []EnhanceResultFromAccepted

\* a run that returned after one candidate was accepted and a later one was
\* rejected
C26_Witness ==
    /\ run = "enhance"
    /\ pc = "returned"
    /\ \E i, j \in 1..Len(layerResults) :
          /\ i < j
          /\ ~layerResults[i].skipped /\ layerResults[i].validationPassed
          /\ ~layerResults[j].skipped /\ ~layerResults[j].validationPassed
          /\ layerResults[j].enhancedPrompt # layerResults[j].originalPrompt
          /\ Accepted(layerResults) = {i}
          /\ result.finalPrompt = layerResults[i].enhancedPrompt
    /\ result.finalPrompt # originalPrompt
    /\ result.appliedLayers = 1

\* C27: whenever a layer is recorded as skipped in enhance, the current
\* prompt and context.previousLayers are left unchanged and the record's
\* enhancedPrompt equals its originalPrompt; for a budget skip and a skip on
\* a skip condition no oracle call is issued and claudeCalls is unchanged.
C27_SkipLeavesPromptAndCalls ==
    [][ ( run = "enhance" /\ layerIdx' = layerIdx + 1 /\ layerResults'[layerIdx].skipped )
        => LET r == layerResults'[layerIdx]
           IN  /\ currentPrompt' = currentPrompt
               /\ context'.previousLayers = context.previousLayers
               /\ r.enhancedPrompt = r.originalPrompt
               /\ r.skipReason # "layer_failed"
                    => /\ oracleCalls' = oracleCalls
                       /\ claudeCalls' = claudeCalls ]_vars

\* a run in which, after a layer was applied, one layer was skipped on a
\* skip condition, one failed and one was skipped on the budget
C27_Witness ==
    /\ run = "enhance"
    /\ claudeCalls >= 1
    /\ currentPrompt # originalPrompt
    /\ \E i, j, k \in 1..Len(layerResults) :
          /\ layerResults[i].skipped /\ layerResults[i].skipReason = "layer_failed"
          /\ layerResults[j].skipped /\ layerResults[j].skipReason = "claude_call_limit"
          /\ layerResults[k].skipped
          /\ layerResults[k].skipReason \notin {"layer_failed", "claude_call_limit"}
          /\ layerResults[k].originalPrompt # originalPrompt

\* the max-age of each cache object in quarter hours: 60, 45 and 30 minutes
MaxAgeQuarters == [refine |-> 4, enhance |-> 3, dynamic |-> 2]

\* a step that is a get returns the stored value and leaves the entry as it
\* is when the entry exists and is younger than max-age, and otherwise
\* returns absent and leaves the key without an entry
GetServesFreshEntriesOnly ==
    ( applied' # applied /\ applied'.fn = "get" )
    => LET c     == applied'.cache
           k     == applied'.key
           entry == caches[c][k]
       IN  IF entry # NoEntry /\ now - entry.timestamp < MaxAgeQuarters[c]
           THEN /\ applied'.returned = entry.response
                /\ caches'[c][k] = entry
           ELSE /\ applied'.returned = NoResponse
                /\ caches'[c][k] = NoEntry

\* the entry of a key changes only by being removed or by a set, which
\* stamps it with the time of the set
EntriesStampedBySetOnly ==
    \A c \in CacheNames, k \in CacheKeys :
       caches'[c][k] # caches[c][k]
       => \/ caches'[c][k] = NoEntry
          \/ /\ applied'.fn = "set"
             /\ caches'[c][k] = [response |-> applied'.value, timestamp |-> now]

\* C30: for each cache object (max-age 60 minutes for the loop, 45 for the
\* pipeline, 30 for dynamic analysis), get(key) at time now returns the
\* stored value exactly when an entry for key exists whose age is less than
\* max-age, and otherwise returns absent and leaves the key without an entry;
\* get never changes the timestamp of an entry, so a value is served for
\* less than max-age after the set that stored it.
C30_GetServesWithinMaxAge ==
    [][GetServesFreshEntriesOnly /\ EntriesStampedBySetOnly]_vars

\* a get that found an entry of the loop's cache as old as max-age and
\* removed it, while the pipeline's cache holds an entry a get has just served
\* at the oldest age it is served at
C30_Witness ==
    /\ applied.fn = "get"
    /\ applied.cache = "refine"
    /\ applied.deleted
    /\ applied.returned = NoResponse
    /\ caches.refine["key"] = NoEntry
    /\ caches.enhance["key"] # NoEntry
    /\ now - caches.enhance["key"].timestamp = 2

\* the sum of the qualityGain fields of the first n records
RECURSIVE SumOfGains(_, _)
SumOfGains(records, n) ==
    IF n = 0 THEN 0 ELSE SumOfGains(records, n - 1) + records[n].qualityGain

\* the gains and totals of a returned result, as the claim states them
GainsFromBaseline(res) ==
    LET its == res.iterations
        n   == Len(its)
    IN  /\ \A i \in 1..n :
              its[i].qualityGain =
                 its[i].critique.score
                 - (IF i = 1 THEN Baseline ELSE its[i - 1].critique.score)
        /\ n > 0 => res.finalQuality = its[n].critique.score
        /\ res.totalQualityGain = res.finalQuality - Baseline
        /\ res.totalQualityGain = SumOfGains(its, n)

\* C31: in every result returned by selfRefinePrompt, for every
\* configuration, the first iteration's qualityGain is its critique score
\* minus the static baseline, each later one its score minus the previous
\* score, finalQuality is the last recorded critique score, and
\* totalQualityGain equals finalQuality minus the baseline, which is the sum
\* of the per-iteration gains.
C31_GainsAddUpFromBaseline ==
    ( run = "refine" /\ pc = "returned" ) => GainsFromBaseline(result)

\* the same for the configurations that allow at least one call
C31_GainsAddUpWithACall ==
    ( run = "refine" /\ pc = "returned" /\ config.maxClaudeCalls >= 1 )
    => GainsFromBaseline(result)

\* the values of the declared type of SelfRefineResult.convergenceReason
ConvergenceReasons ==
    {"quality_achieved", "max_iterations", "diminishing_returns", "claude_limit"}

\* C33: the convergenceReason of every result returned by selfRefinePrompt
\* is one of quality_achieved, max_iterations, diminishing_returns and
\* claude_limit.
C33_ReasonOfDeclaredType ==
    ( run = "refine" /\ pc = "returned" )
    => result.convergenceReason \in ConvergenceReasons

\* C34: for every configuration with maxClaudeCalls >= 1, the result of
\* selfRefinePrompt has finalPrompt equal to the prompt of the last
\* iteration record and finalQuality equal to that record's critique score:
\* no improved text is returned without a critique, and the last counted
\* call of the run is a critique call, not an improve call.
C34_ReturnsLastCritiquedPrompt ==
    ( run = "refine" /\ pc = "returned" /\ config.maxClaudeCalls >= 1 )
    => LET its == result.iterations
           n   == Len(its)
       IN  /\ n >= 1
           /\ result.finalPrompt = its[n].prompt
           /\ result.finalQuality = its[n].critique.score
           /\ critiqueCalls = n
           /\ improveCalls = n - 1
           /\ result.totalClaudeCalls = critiqueCalls + improveCalls

\* a run that improved its prompt, critiqued the improved text and returned
\* it
C34_Witness ==
    /\ run = "refine"
    /\ pc = "returned"
    /\ config.maxClaudeCalls >= 1
    /\ Len(result.iterations) = 2
    /\ improveCalls = 1
    /\ result.finalPrompt # originalPrompt
    /\ result.finalPrompt = result.iterations[2].prompt
    /\ result.iterations[1].prompt = originalPrompt

\* C35: under the default budgets of the four modes (fast 1 iteration and 2
\* calls, balanced 3 and 5, thorough 5 and 10, research 7 and 15) no
\* selfRefinePrompt run returns convergenceReason max_iterations: the run
\* has returned claude_limit at or before the iteration at which the
\* max-iterations rule gives its verdict.
C35_ModesNeverReturnMaxIterations ==
    /\ ( run = "refine" /\ pc = "returned" )
          => result.convergenceReason # "max_iterations"
    /\ ( run = "refine" /\ pc = "returned"
         /\ shouldContinueRefinement(SubSeq(iterations, 1, Len(iterations) - 1), config).reason
               = "max_iterations" )
          => result.convergenceReason = "claude_limit"

\* a run under the budgets of research that returned on its eighth
\* iteration, where the max-iterations rule gave its verdict and the call
\* budget was used up
C35_Witness ==
    /\ run = "refine"
    /\ pc = "returned"
    /\ config = [maxClaudeCalls |-> 15, maxIterations |-> 7, targetQuality |-> 95]
    /\ Len(iterations) = 8
    /\ shouldContinueRefinement(SubSeq(iterations, 1, 7), config).reason = "max_iterations"
    /\ result.totalClaudeCalls = 15
    /\ result.convergenceReason = "claude_limit"

\* a pass of the loop body whose critique came out of the cache: getCritique
\* was called and the oracle was not
CritiqueServedFromCache ==
    /\ run = "refine"
    /\ critiqueCalls' = critiqueCalls + 1
    /\ oracleCalls' = oracleCalls

\* C36: the critique of every iteration record of a selfRefinePrompt run was
\* produced for that record's own prompt text.  Within one run that starts
\* with an empty cache this requires that a critique served from the cache
\* is recorded only against a text that an earlier iteration of the run has
\* critiqued: no other call can have produced a critique for it.
C36_CachedCritiqueIsOfSameText ==
    [][ CritiqueServedFromCache
        => \E i \in 1..Len(iterations) :
              iterations[i].prompt = iterations'[Len(iterations')].prompt ]_vars

\* C37: when two runs execute concurrently in one process, in every
\* interleaving of the steps of their oracle calls each oracle invocation is
\* sent its own caller's request text, no call fails because of the other
\* run, and each caller receives and caches the oracle's answer to its own
\* request.
C37_ConcurrentCallsDoNotInterfere ==
    run = "concurrent" =>
        \A c \in CallerNames :
           /\ callers[c].pc # "threw"
           /\ callers[c].pc \in {"rm", "store", "returned"}
                 => /\ callers[c].sent = RequestOf[c]
                    /\ callers[c].response = AnswerTo(RequestOf[c])
           /\ callers[c].pc = "returned"
                 => refineCache[KeyOf[c]] = AnswerTo(RequestOf[c])

\* the length of a text
LengthOf(text) == Catalogue[text].len

\* a candidate that validate accepts is longer than the text before it,
\* which is not empty
AcceptedIsLonger ==
    ( applied.fn = "validate" /\ applied.passed )
    => /\ LengthOf(applied.candidate) > LengthOf(applied.before)
       /\ LengthOf(applied.before) > 0

\* a step of an enhance run leaves the current prompt or replaces it with a
\* longer one
CurrentPromptGrows ==
    run = "enhance"
    => \/ currentPrompt' = currentPrompt
       \/ LengthOf(currentPrompt') > LengthOf(currentPrompt)

\* C38: every candidate accepted by the validate predicate of any of the
\* five layers is strictly longer than the text it replaces, so during an
\* enhance run the length of the current prompt never decreases and
\* finalPrompt is at least as long as the input; no layer accepts a
\* candidate when the text before is empty.
C38_AcceptedCandidatesGrow ==
    /\ []AcceptedIsLonger
    /\ [][CurrentPromptGrows]_vars
    /\ []( ( run = "enhance" /\ pc = "returned" )
             => LengthOf(result.finalPrompt) >= LengthOf(originalPrompt) )

\* an enhance run that returned a prompt two layers have lengthened
C38_Witness ==
    /\ run = "enhance"
    /\ pc = "returned"
    /\ Len(context.previousLayers) >= 2
    /\ LengthOf(result.finalPrompt) > LengthOf(originalPrompt)
    /\ \E i \in 1..Len(layerResults) :
          /\ ~layerResults[i].skipped
          /\ layerResults[i].validationPassed
          /\ layerResults[i].originalPrompt # originalPrompt
          /\ LengthOf(layerResults[i].enhancedPrompt) > LengthOf(layerResults[i].originalPrompt)

\* C32: runDynamicAnalysis never throws; when the oracle call fails or its
\* response cannot be parsed it returns the fallback analysis (detectedDomain
\* general, improvementPotential medium, expertiseLevel intermediate,
\* domainConfidence 0.5); and every analysis it returns has
\* improvementPotential in {low, medium, high, critical}, expertiseLevel in
\* {beginner, intermediate, advanced, expert} and domainConfidence in [0, 1].
C32_AnalysisNeverThrowsAndIsInRange ==
    applied.fn = "runDynamicAnalysis" =>
        LET a == applied.returned
        IN  /\ ~applied.threw
            /\ ( ~applied.outcome.ok \/ applied.outcome.response.kind # "object" )
                  => /\ a.detectedDomain = "general"
                     /\ a.improvementPotential = "medium"
                     /\ a.expertiseLevel = "intermediate"
                     /\ a.domainConfidence = 5
            /\ a.improvementPotential \in {"low", "medium", "high", "critical"}
            /\ a.expertiseLevel \in {"beginner", "intermediate", "advanced", "expert"}
            /\ a.domainConfidence >= 0
            /\ a.domainConfidence <= 10

\* an analysis whose three fields were all out of range, returned sanitized
C32_Witness ==
    /\ applied.fn = "runDynamicAnalysis"
    /\ applied.outcome.ok
    /\ applied.outcome.response.kind = "object"
    /\ applied.outcome.response.potential = "extreme"
    /\ applied.outcome.response.level = "guru"
    /\ applied.outcome.response.confidence = 11
    /\ applied.returned.improvementPotential = "medium"
    /\ applied.returned.expertiseLevel = "intermediate"
    /\ applied.returned.domainConfidence = 7

\* a step that is a call of runDynamicAnalysis
DynamicCallStep ==
    /\ lastCall'.n = lastCall.n + 1
    /\ lastCall'.gateway = "runDynamicAnalysis"

\* a step that is a call of callClaude or callClaudeForLayer
GatewayCallStep ==
    /\ lastCall'.n = lastCall.n + 1
    /\ lastCall'.gateway \in {"callClaude", "callClaudeForLayer"}

\* the entry the cache of a gateway function holds for a key
GatewayEntry(gateway, key, refine, enhance) ==
    IF gateway = "callClaude" THEN refine[key] ELSE enhance[key]

\* a call of runDynamicAnalysis less than 30 minutes (two quarters) after a
\* failed one returns the fallback and does not invoke the oracle
FailedAnalysisIsMemoised ==
    (DynamicCallStep /\ LastFailure >= 0 /\ now - LastFailure < 2)
        => /\ ~lastCall'.invoked
           /\ ~applied'.invoked
           /\ applied'.returned = FallbackAnalysis

\* an entry a later call can be answered from: get returns it and it is
\* truthy (an empty text is stored but never served)
Servable(entry) == entry # NoEntry /\ Truthy(entry)

\* a gateway call finding nothing to serve under its key invokes the oracle
MissingEntryInvokesOracle ==
    (GatewayCallStep
        /\ ~Servable(GatewayEntry(lastCall'.gateway, lastCall'.key,
                                  refineCache, enhancementCache)))
        => lastCall'.invoked

\* an entry to serve only appears by a call on its key that the oracle
\* answered
EntriesAppearByAnsweredCalls ==
    /\ \A k \in GatewayRefineKeys :
          (~Servable(refineCache[k]) /\ Servable(refineCache'[k]))
             => /\ lastCall'.gateway = "callClaude" /\ lastCall'.key = k
                /\ lastCall'.invoked /\ lastCall'.ok
    /\ \A k \in GatewayLayerKeys :
          (~Servable(enhancementCache[k]) /\ Servable(enhancementCache'[k]))
             => /\ lastCall'.gateway = "callClaudeForLayer" /\ lastCall'.key = k
                /\ lastCall'.invoked /\ lastCall'.ok

\* after a gateway call whose oracle call failed the key has nothing to serve
FailedGatewayCallLeavesNoEntry ==
    (lastCall.gateway \in {"callClaude", "callClaudeForLayer"}
        /\ lastCall.invoked /\ ~lastCall.ok)
        => ~Servable(GatewayEntry(lastCall.gateway, lastCall.key,
                                  refineCache, enhancementCache))

\* getCritique took its catch block on the call recorded in call: the oracle
\* call failed or the response could not be parsed
CritiqueFailed(call) ==
    /\ call.gateway = "callClaude"
    /\ call.key[1] = "critique"
    /\ \/ ~call.ok
       \/ call.response.kind # "object"

\* the call after a failed critique, on the same key, invokes the oracle
FailedCritiqueIsAttemptedAfresh ==
    (GatewayCallStep /\ CritiqueFailed(lastCall) /\ lastCall'.gateway = "callClaude"
        /\ lastCall'.key = lastCall.key)
        => lastCall'.invoked

====
